---------------------------- MODULE Spec2Model ----------------------------
(***************************************************************************)
(* A model of the rust-anilist client library: the request executor        *)
(* (Client::request), the query resolver (Client::get_query), the typed    *)
(* decode layer (serde-derived Deserialize of the records in models/), the *)
(* get_* / search_* operations of Client and the lazy loader (load_full).  *)
(*                                                                         *)
(* A call of an async method is one action: the method sends at most one   *)
(* HTTP request and the service's answer is an input of the action.        *)
(* A Rust call ends in one of three ways, all modelled as values:          *)
(*   Okay(v, sent)   the call returned Ok(v) / Some(v) / None              *)
(*   Error(e, sent)  the call returned Err(e)                              *)
(*   Panic(w, sent)  the call panicked (unwrap, unimplemented!, panic!)    *)
(* `sent` is the sequence of HTTP requests the call sent.                  *)
(***************************************************************************)
EXTENDS Integers, Sequences, FiniteSets, TLC

VARIABLES client, wire, last, flights

vars == <<client, wire, last, flights>>

-----------------------------------------------------------------------------
(* Bounds of the model.                                                    *)

\* identifiers the caller and the service use: 1..MaxId
MaxId == 2
\* longest result page of a search answer
MaxPage == 2
\* most entries of one answer that differ from a well-formed entry
MaxDefects == 1
\* most edges of a raw characters or relations sub-document
MaxEdges == 2

-----------------------------------------------------------------------------
(* Option<T> and Result<T, E>.                                             *)

None == [some |-> FALSE]
Some(x) == [some |-> TRUE, v |-> x]

Ok(x) == [ok |-> TRUE, v |-> x]
Err(e) == [ok |-> FALSE, e |-> e]

Okay(v, sent) == [st |-> "ok", v |-> v, sent |-> sent]
Error(e, sent) == [st |-> "err", e |-> e, sent |-> sent]
Panic(why, sent) == [st |-> "panic", why |-> why, sent |-> sent]

\* smallest element of a non-empty set of integers
MinOf(S) == CHOOSE x \in S : \A y \in S : x <= y

-----------------------------------------------------------------------------
(* serde_json::Value.  Every value is a record tagged by k, so that two    *)
(* values of different JSON types compare unequal.                         *)

JNull == [k |-> "null"]
JStr(s) == [k |-> "str", s |-> s]
JInt(n) == [k |-> "int", n |-> n]
JBool(b) == [k |-> "bool", b |-> b]
JArr(a) == [k |-> "arr", a |-> a]
\* o is a function from keys to values
JObj(o) == [k |-> "obj", o |-> o]

\* value["key"]: Null when value is no object or has no such key
Index(v, key) ==
    IF v.k = "obj" /\ key \in DOMAIN v.o THEN v.o[key] ELSE JNull

as_i64(v) == IF v.k = "int" THEN Some(v.n) ELSE None
as_str(v) == IF v.k = "str" THEN Some(v.s) ELSE None
as_array(v) == IF v.k = "arr" THEN Some(v.a) ELSE None

\* the object o without key, and with key set to x
Without(o, key) == [x \in DOMAIN o \ {key} |-> o[x]]
With(o, key, x) == [y \in DOMAIN o \cup {key} |-> IF y = key THEN x ELSE o[y]]

-----------------------------------------------------------------------------
(* Client: the configuration a request is sent with.                       *)

DefaultTimeout == 20

Client(api_token, timeout_) == [api_token |-> api_token, timeout |-> timeout_]

\* impl Default for Client
ClientDefault == Client(None, DefaultTimeout)

-----------------------------------------------------------------------------
(* The types of the record fields, as the derived Deserialize sees them.   *)

TInt(w) == [k |-> "int", w |-> w]
TStr == [k |-> "string"]
TBool == [k |-> "bool"]
TF32 == [k |-> "f32"]
TValue == [k |-> "value"]
TColor == [k |-> "color"]
TClient == [k |-> "client"]
TOpt(t) == [k |-> "opt", of |-> t]
TVec(t) == [k |-> "vec", of |-> t]
TStruct(name) == [k |-> "struct", name |-> name]
TEnum(name) == [k |-> "enum", name |-> name]

\* A field f read from wire key w.  miss says what a missing key gives:
\* "err" (missing field, or None for an Option), "default" (#[serde(default)])
\* and "skip" (#[serde(skip)]: the key is never read).
Req(f, w, ty) == [f |-> f, w |-> w, ty |-> ty, miss |-> "err"]
Dflt(f, w, ty) == [f |-> f, w |-> w, ty |-> ty, miss |-> "default"]
Skip(f, ty) == [f |-> f, w |-> f, ty |-> ty, miss |-> "skip"]

\* whether integer n fits the Rust integer type w (within the model's integers)
InRange(w, n) ==
    CASE w = "u8" -> n >= 0 /\ n <= 255
      [] w = "u16" -> n >= 0 /\ n <= 65535
      [] w \in {"u32", "u64"} -> n >= 0
      [] OTHER -> TRUE

\* The unit variants of each enum: <<wire name (rename_all applied), variant>>.
EnumWire(name) ==
    CASE name = "Format" ->
            {<<"TV", "Tv">>, <<"TV_SHORT", "TvShort">>, <<"MOVIE", "Movie">>,
             <<"SPECIAL", "Special">>, <<"OVA", "Ova">>, <<"ONA", "Ona">>,
             <<"MUSIC", "Music">>, <<"MANGA", "Manga">>, <<"NOVEL", "Novel">>,
             <<"ONE_SHOT", "OneShot">>}
      [] name = "Status" ->
            {<<"FINISHED", "Finished">>, <<"RELEASING", "Releasing">>,
             <<"NOT_YET_RELEASED", "NotYetReleased">>, <<"CANCELLED", "Cancelled">>,
             <<"HIATUS", "Hiatus">>, <<"CURRENT", "Current">>, <<"PLANNING", "Planning">>,
             <<"COMPLETED", "Completed">>, <<"DROPPED", "Dropped">>,
             <<"PAUSED", "Paused">>, <<"REPEATING", "Repeating">>}
      [] name = "Source" ->
            {<<"ORIGINAL", "Original">>, <<"MANGA", "Manga">>,
             <<"LIGHT_NOVEL", "LightNovel">>, <<"VISUAL_NOVEL", "VisualNovel">>,
             <<"VIDEO_GAME", "VideoGame">>, <<"OTHER", "Other">>, <<"NOVEL", "Novel">>,
             <<"DOUJINSHI", "Doujinshi">>, <<"ANIME", "Anime">>,
             <<"WEB_NOVEL", "WebNovel">>, <<"LIVE_ACTION", "LiveAction">>,
             <<"GAME", "Game">>, <<"COMIC", "Comic">>,
             <<"MULTIMEDIA_PROJECT", "MultimediaProject">>,
             <<"PICTURE_BOOK", "PictureBook">>}
      [] name = "Season" ->
            {<<"WINTER", "Winter">>, <<"SPRING", "Spring">>, <<"SUMMER", "Summer">>,
             <<"FALL", "Fall">>}
      [] name = "RelationType" ->
            {<<"ADAPTATION", "Adaptation">>, <<"PREQUEL", "Prequel">>,
             <<"SEQUEL", "Sequel">>, <<"PARENT", "Parent">>, <<"SIDE_STORY", "SideStory">>,
             <<"CHARACTER", "Character">>, <<"SUMMARY", "Summary">>,
             <<"ALTERNATIVE", "Alternative">>, <<"SPIN_OFF", "SpinOff">>,
             <<"OTHER", "Other">>, <<"SOURCE", "Source">>,
             <<"COMPILATION", "Compilation">>, <<"CONTAINS", "Contains">>}
      [] name = "NotificationType" ->
            {<<"ACTIVITY_MESSAGE", "ActivityMessage">>,
             <<"ACTIVITY_REPLY", "ActivityReply">>, <<"FOLLOWING", "Following">>,
             <<"ACTIVITY_MENTION", "ActivityMention">>,
             <<"THREAD_COMMENT_MENTION", "ThreadCommentMention">>,
             <<"AIRING", "Airing">>, <<"ACTIVITY_LIKE", "ActivityLike">>,
             <<"ACTIVITY_REPLY_LIKE", "ActivityReplyLike">>,
             <<"THREAD_LIKE", "ThreadLike">>,
             <<"ACTIVITY_REPLY_SUBSCRIBED", "ActivityReplySubscribed">>,
             <<"RELATED_MEDIA_ADDITION", "RelatedMediaAddition">>,
             <<"MEDIA_DATA_CHANGE", "MediaDataChange">>,
             <<"MEDIA_MERGE", "MediaMerge">>, <<"MEDIA_DELETION", "MediaDeletion">>}
      [] name = "Language" ->
            {<<"Japanese", "Japanese">>, <<"English", "English">>, <<"Korean", "Korean">>,
             <<"Italian", "Italian">>, <<"Spanish", "Spanish">>,
             <<"Portuguese", "Portuguese">>, <<"French", "French">>,
             <<"German", "German">>, <<"Hebrew", "Hebrew">>, <<"Hungarian", "Hungarian">>,
             <<"Chinese", "Chinese">>, <<"Arabic", "Arabic">>, <<"Filipino", "Filipino">>,
             <<"Catalan", "Catalan">>, <<"Finnish", "Finnish">>, <<"Turkish", "Turkish">>,
             <<"Dutch", "Dutch">>, <<"Swedish", "Swedish">>, <<"Thai", "Thai">>,
             <<"Tagalog", "Tagalog">>, <<"Malaysian", "Malaysian">>,
             <<"Indonesian", "Indonesian">>, <<"Vietnamese", "Vietnamese">>,
             <<"Nepali", "Nepali">>, <<"Hindi", "Hindi">>, <<"Urdu", "Urdu">>}
      [] name = "LinkType" ->
            {<<"INFO", "Info">>, <<"STREAMING", "Streaming">>, <<"SOCIAL", "Social">>}
      [] name = "UserTitleLanguage" ->
            {<<"ROMAJI", "Romaji">>, <<"ENGLISH", "English">>, <<"NATIVE", "Native">>,
             <<"ROMAJI_STYLISED", "RomajiStylised">>,
             <<"ENGLISH_STYLISED", "EnglishStylised">>,
             <<"NATIVE_STYLISED", "NativeStylised">>}
      [] name = "UserStaffNameLanguage" ->
            {<<"ROMAJI_WESTERN", "RomajiWestern">>, <<"ROMAJI", "Romaji">>,
             <<"NATIVE", "Native">>}

\* The #[default] variant of each enum.
EnumDefault(name) ==
    CASE name = "Format" -> "Tv"
      [] name = "Status" -> "NotYetReleased"
      [] name = "Source" -> "Other"
      [] name = "Season" -> "Winter"
      [] name = "RelationType" -> "Other"
      [] name = "NotificationType" -> "ActivityMessage"
      [] name = "Language" -> "Japanese"
      [] name = "LinkType" -> "Info"
      [] name = "UserTitleLanguage" -> "Romaji"
      [] name = "UserStaffNameLanguage" -> "Romaji"

\* The derived Deserialize of an enum of unit variants: the wire value must
\* be a string that is the wire name of a variant.
DecodeEnum(name, v) ==
    IF v.k # "str" THEN Err([kind |-> "invalid type", at |-> name])
    ELSE IF \E p \in EnumWire(name) : p[1] = v.s
         THEN Ok((CHOOSE p \in EnumWire(name) : p[1] = v.s)[2])
    ELSE Err([kind |-> "unknown variant", at |-> name])

\* Color: the named unit variants by their UPPERCASE wire names first, then
\* the untagged variant Hex(String).
ColorWire ==
    {<<"BLUE", "Blue">>, <<"PURPLE", "Purple">>, <<"PINK", "Pink">>, <<"ORANGE", "Orange">>,
     <<"RED", "Red">>, <<"GREEN", "Green">>, <<"GRAY", "Gray">>}

ColorNamed(c) == [c |-> c]
ColorHex(s) == [c |-> "Hex", hex |-> s]

DecodeColor(v) ==
    IF v.k # "str" THEN Err([kind |-> "invalid type", at |-> "Color"])
    ELSE IF \E p \in ColorWire : p[1] = v.s
         THEN Ok(ColorNamed((CHOOSE p \in ColorWire : p[1] = v.s)[2]))
    ELSE Ok(ColorHex(v.s))

-----------------------------------------------------------------------------
(* The fields of each record, in declaration order, with their wire keys   *)
(* (rename_all and rename applied; rename_all = "lowercase" leaves a field *)
(* name as it is, so Title.user_preferred is read from "user_preferred").  *)

TitleFields ==
    << Req("romaji", "romaji", TOpt(TStr)),
       Req("english", "english", TOpt(TStr)),
       Req("native", "native", TStr),
       Req("user_preferred", "user_preferred", TOpt(TStr)) >>

CoverFields ==
    << Req("extra_large", "extraLarge", TOpt(TStr)),
       Req("large", "large", TOpt(TStr)),
       Req("medium", "medium", TOpt(TStr)),
       Req("color", "color", TOpt(TColor)) >>

ImageFields ==
    << Req("large", "large", TStr),
       Req("medium", "medium", TStr) >>

DateFields ==
    << Req("year", "year", TOpt(TInt("i32"))),
       Req("month", "month", TOpt(TInt("u32"))),
       Req("day", "day", TOpt(TInt("u32"))) >>

TagFields ==
    << Req("id", "id", TInt("i64")),
       Req("name", "name", TStr),
       Req("description", "description", TStr),
       Req("category", "category", TStr),
       Req("rank", "rank", TInt("i64")),
       Req("is_general_spoiler", "isGeneralSpoiler", TBool),
       Req("is_media_spoiler", "isMediaSpoiler", TBool),
       Req("is_adult", "isAdult", TBool),
       Req("user_id", "userId", TOpt(TInt("i64"))) >>

LinkFields ==
    << Req("id", "id", TOpt(TInt("i64"))),
       Req("title", "title", TOpt(TStr)),
       Req("thumbnail", "thumbnail", TOpt(TStr)),
       Req("url", "url", TOpt(TStr)),
       Req("site", "site", TOpt(TStr)),
       Req("site_id", "siteId", TOpt(TInt("i64"))),
       Req("link_type", "linkType", TOpt(TEnum("LinkType"))),
       Req("language", "language", TOpt(TEnum("Language"))),
       Req("color", "color", TOpt(TColor)),
       Req("icon", "icon", TOpt(TStr)),
       Req("notes", "notes", TOpt(TStr)),
       Req("is_disabled", "isDisabled", TOpt(TBool)) >>

AiringScheduleFields ==
    << Req("id", "id", TInt("u32")),
       Req("at", "airingAt", TInt("i64")),
       Req("time_until", "timeUntilAiring", TInt("u64")),
       Req("episode", "episode", TInt("u32")) >>

RelationFields ==
    << Req("node", "node", TValue),
       Req("id", "id", TInt("i64")),
       Req("relation_type", "relationType", TEnum("RelationType")),
       Req("is_main_studio", "isMainStudio", TBool) >>

AnimeFields ==
    << Req("id", "id", TInt("i64")),
       Req("id_mal", "idMal", TOpt(TInt("i64"))),
       Req("title", "title", TStruct("Title")),
       Req("format", "format", TEnum("Format")),
       Req("status", "status", TEnum("Status")),
       Req("description", "description", TStr),
       Req("start_date", "startDate", TOpt(TStruct("Date"))),
       Req("end_date", "endDate", TOpt(TStruct("Date"))),
       Req("season", "season", TOpt(TEnum("Season"))),
       Req("season_year", "seasonYear", TOpt(TInt("u32"))),
       Req("season_int", "seasonInt", TOpt(TInt("u64"))),
       Req("episodes", "episodes", TOpt(TInt("u16"))),
       Req("duration", "duration", TOpt(TInt("u8"))),
       Req("country_of_origin", "countryOfOrigin", TOpt(TStr)),
       Req("is_licensed", "isLicensed", TOpt(TBool)),
       Req("source", "source", TOpt(TEnum("Source"))),
       Req("hashtag", "hashtag", TOpt(TStr)),
       Req("updated_at", "updatedAt", TOpt(TInt("u64"))),
       Req("cover", "coverImage", TStruct("Cover")),
       Req("banner", "bannerImage", TOpt(TStr)),
       Req("genres", "genres", TOpt(TVec(TStr))),
       Req("synonyms", "synonyms", TOpt(TVec(TStr))),
       Req("average_score", "averageScore", TOpt(TInt("u8"))),
       Req("mean_score", "meanScore", TOpt(TInt("u8"))),
       Req("popularity", "popularity", TOpt(TInt("u32"))),
       Req("is_locked", "isLocked", TOpt(TBool)),
       Req("trending", "trending", TOpt(TInt("u32"))),
       Req("favourites", "favourites", TOpt(TInt("u32"))),
       Req("tags", "tags", TOpt(TVec(TStruct("Tag")))),
       Req("relations", "relations", TValue),
       Req("characters", "characters", TValue),
       Skip("staff", TOpt(TVec(TStruct("Person")))),
       Skip("studios", TOpt(TVec(TStruct("Studio")))),
       Req("is_favourite", "isFavourite", TOpt(TBool)),
       Req("is_favourite_blocked", "isFavouriteBlocked", TOpt(TBool)),
       Req("is_adult", "isAdult", TBool),
       Req("next_airing_episode", "nextAiringEpisode",
           TOpt(TStruct("AiringSchedule"))),
       Req("external_links", "externalLinks", TOpt(TVec(TStruct("Link")))),
       Req("streaming_episodes", "streamingEpisodes", TOpt(TVec(TStruct("Link")))),
       Req("url", "siteUrl", TStr),
       Skip("client", TClient),
       Dflt("is_full_loaded", "isFullLoaded", TBool) >>

MangaFields ==
    << Req("id", "id", TInt("i64")),
       Req("id_mal", "idMal", TOpt(TInt("i64"))),
       Req("title", "title", TStruct("Title")),
       Req("format", "format", TEnum("Format")),
       Req("status", "status", TEnum("Status")),
       Req("description", "description", TStr),
       Req("start_date", "startDate", TOpt(TStruct("Date"))),
       Req("end_date", "endDate", TOpt(TStruct("Date"))),
       Req("chapters", "chapters", TOpt(TInt("u16"))),
       Req("volumes", "volumes", TOpt(TInt("u16"))),
       Req("country_of_origin", "countryOfOrigin", TOpt(TStr)),
       Req("is_licensed", "isLicensed", TOpt(TBool)),
       Req("source", "source", TOpt(TEnum("Source"))),
       Req("hashtag", "hashtag", TOpt(TStr)),
       Req("updated_at", "updatedAt", TOpt(TInt("u64"))),
       Req("cover", "coverImage", TStruct("Cover")),
       Req("banner", "bannerImage", TOpt(TStr)),
       Req("genres", "genres", TOpt(TVec(TStr))),
       Req("synonyms", "synonyms", TOpt(TVec(TStr))),
       Req("average_score", "averageScore", TOpt(TInt("u8"))),
       Req("mean_score", "meanScore", TOpt(TInt("u8"))),
       Req("popularity", "popularity", TOpt(TInt("u32"))),
       Req("is_locked", "isLocked", TOpt(TBool)),
       Req("trending", "trending", TOpt(TInt("u32"))),
       Req("favourites", "favourites", TOpt(TInt("u32"))),
       Req("tags", "tags", TOpt(TVec(TStruct("Tag")))),
       Req("relations", "relations", TValue),
       Req("characters", "characters", TValue),
       Skip("staff", TOpt(TVec(TStruct("Person")))),
       Skip("studios", TOpt(TVec(TStruct("Studio")))),
       Req("is_favourite", "isFavourite", TOpt(TBool)),
       Req("is_favourite_blocked", "isFavouriteBlocked", TOpt(TBool)),
       Req("is_adult", "isAdult", TBool),
       Req("external_links", "externalLinks", TOpt(TVec(TStruct("Link")))),
       Req("url", "siteUrl", TStr),
       Skip("client", TClient),
       Dflt("is_full_loaded", "isFullLoaded", TBool) >>

NotificationOptionFields ==
    << Req("notification_type", "notificationType", TEnum("NotificationType")),
       Req("enabled", "enabled", TBool) >>

ListActivityOptionFields ==
    << Req("status", "status", TEnum("Status")),
       Req("disabled", "disabled", TBool) >>

OptionsFields ==
    << Req("title_language", "titleLanguage", TOpt(TEnum("UserTitleLanguage"))),
       Dflt("display_adult_content", "displayAdultContent", TBool),
       Dflt("airing_notifications", "airingNotifications", TBool),
       Req("profile_color", "profileColor", TColor),
       Req("notifications_options", "notificationsOptions",
           TOpt(TVec(TStruct("NotificationOption")))),
       Req("timezone", "timezone", TOpt(TStr)),
       Dflt("activity_merge_time", "activityMergeTime", TInt("i32")),
       Dflt("staff_name_language", "staffNameLanguage",
            TEnum("UserStaffNameLanguage")),
       Dflt("restrict_messages_to_following", "restrictMessagesToFollowing", TBool),
       Req("disabled_list_activity", "disabledListActivity",
           TOpt(TVec(TStruct("ListActivityOption")))) >>

MediaListTypeOptionsFields ==
    << Req("section_order", "sectionOrder", TVec(TStr)),
       Req("split_completed_section_by_format", "splitCompletedSectionByFormat",
           TBool),
       Req("custom_lists", "customLists", TVec(TStr)),
       Req("advanced_scoring", "advancedScoring", TVec(TStr)),
       Req("advanced_scoring_enabled", "advancedScoringEnabled", TBool) >>

MediaListOptionsFields ==
    << Req("row_order", "rowOrder", TStr),
       Req("anime_list", "animeList", TStruct("MediaListTypeOptions")),
       Req("manga_list", "mangaList", TStruct("MediaListTypeOptions")) >>

StudioFields ==
    << Req("id", "id", TInt("i64")),
       Req("name", "name", TStr),
       Req("is_animation_studio", "isAnimationStudio", TBool),
       Req("url", "url", TStr),
       Req("is_favourite", "isFavourite", TOpt(TBool)),
       Req("favourites", "favourites", TInt("i64")) >>

FavouritesFields ==
    << Req("anime", "anime", TVec(TStruct("Anime"))),
       Req("manga", "manga", TVec(TStruct("Manga"))),
       Req("characters", "characters", TVec(TStruct("Character"))),
       Req("staff", "staff", TVec(TStruct("Person"))),
       Req("studios", "studios", TVec(TStruct("Studio"))) >>

UserFormatStatisticFields ==
    << Req("count", "count", TInt("i32")),
       Req("minutes_watched", "minutesWatched", TOpt(TInt("i32"))),
       Req("chapters_read", "chaptersRead", TOpt(TInt("i32"))),
       Dflt("media_ids", "mediaIds", TVec(TInt("i32"))),
       Req("format", "format", TEnum("Format")) >>

UserStatusStatisticFields ==
    << Req("count", "count", TInt("i32")),
       Req("minutes_watched", "minutesWatched", TOpt(TInt("i32"))),
       Req("chapters_read", "chaptersRead", TOpt(TInt("i32"))),
       Dflt("media_ids", "mediaIds", TVec(TInt("i32"))),
       Req("status", "status", TEnum("Status")) >>

UserStatisticsFields ==
    << Req("count", "count", TInt("i32")),
       Req("standard_deviation", "standardDeviation", TOpt(TF32)),
       Req("minutes_watched", "minutesWatched", TOpt(TInt("i32"))),
       Req("episodes_watched", "episodesWatched", TOpt(TInt("i32"))),
       Req("chapters_read", "chaptersRead", TOpt(TInt("i32"))),
       Req("volumes_read", "volumesRead", TOpt(TInt("i32"))),
       Req("formats", "formats", TOpt(TVec(TStruct("UserFormatStatistic")))),
       Req("statuses", "statuses", TVec(TStruct("UserStatusStatistic"))) >>

UserStatisticTypesFields ==
    << Req("anime", "anime", TStruct("UserStatistics")),
       Req("manga", "manga", TStruct("UserStatistics")) >>

UserFields ==
    << Req("id", "id", TInt("i32")),
       Req("name", "name", TStr),
       Req("about", "about", TOpt(TStr)),
       Req("avatar", "avatar", TOpt(TStruct("Image"))),
       Req("banner", "bannerImage", TOpt(TStr)),
       Req("donator_badge", "donatorBadge", TStr),
       Req("donator_tier", "donatorTier", TInt("i32")),
       Skip("favourites", TStruct("Favourites")),
       Req("is_blocked", "isBlocked", TOpt(TBool)),
       Req("is_follower", "isFollower", TOpt(TBool)),
       Req("is_following", "isFollowing", TOpt(TBool)),
       Req("media_list_options", "mediaListOptions",
           TOpt(TStruct("MediaListOptions"))),
       Req("options", "options", TOpt(TStruct("Options"))),
       Req("url", "siteUrl", TStr),
       Req("statistics", "statistics", TStruct("UserStatisticTypes")),
       Req("unread_notification_count", "unreadNotificationCount",
           TOpt(TInt("i32"))),
       Req("created_at", "createdAt", TInt("i64")),
       Req("updated_at", "updatedAt", TInt("i64")),
       Skip("client", TClient),
       Dflt("is_full_loaded", "isFullLoaded", TBool) >>

\* Character and Person (models/character.rs, models/person.rs): the fields
\* the operations of Client, Anime and Manga use.
CharacterFields ==
    << Req("id", "id", TInt("i64")),
       Req("role", "role", TOpt(TStr)),
       Req("url", "siteUrl", TStr),
       Skip("client", TClient),
       Dflt("is_full_loaded", "isFullLoaded", TBool) >>

PersonFields ==
    << Req("id", "id", TInt("i64")),
       Req("url", "siteUrl", TStr),
       Skip("client", TClient),
       Dflt("is_full_loaded", "isFullLoaded", TBool) >>

Fields(name) ==
    CASE name = "Title" -> TitleFields
      [] name = "Cover" -> CoverFields
      [] name = "Image" -> ImageFields
      [] name = "Date" -> DateFields
      [] name = "Tag" -> TagFields
      [] name = "Link" -> LinkFields
      [] name = "AiringSchedule" -> AiringScheduleFields
      [] name = "Relation" -> RelationFields
      [] name = "Anime" -> AnimeFields
      [] name = "Manga" -> MangaFields
      [] name = "NotificationOption" -> NotificationOptionFields
      [] name = "ListActivityOption" -> ListActivityOptionFields
      [] name = "Options" -> OptionsFields
      [] name = "MediaListTypeOptions" -> MediaListTypeOptionsFields
      [] name = "MediaListOptions" -> MediaListOptionsFields
      [] name = "Studio" -> StudioFields
      [] name = "Favourites" -> FavouritesFields
      [] name = "UserFormatStatistic" -> UserFormatStatisticFields
      [] name = "UserStatusStatistic" -> UserStatusStatisticFields
      [] name = "UserStatistics" -> UserStatisticsFields
      [] name = "UserStatisticTypes" -> UserStatisticTypesFields
      [] name = "User" -> UserFields
      [] name = "Character" -> CharacterFields
      [] name = "Person" -> PersonFields

-----------------------------------------------------------------------------
(* Default::default() and the derived Deserialize.                         *)

RECURSIVE Default(_), DefaultStruct(_), Decode(_, _), DecodeStruct(_, _)

Default(ty) ==
    CASE ty.k = "int" -> 0
      [] ty.k = "f32" -> 0
      [] ty.k = "string" -> ""
      [] ty.k = "bool" -> FALSE
      [] ty.k = "value" -> JNull
      [] ty.k = "color" -> ColorNamed("Purple")
      [] ty.k = "client" -> ClientDefault
      [] ty.k = "opt" -> None
      [] ty.k = "vec" -> << >>
      [] ty.k = "enum" -> EnumDefault(ty.name)
      [] ty.k = "struct" -> DefaultStruct(ty.name)

DefaultStruct(name) ==
    LET fs == Fields(name)
        FieldOf(f) == fs[CHOOSE i \in 1..Len(fs) : fs[i].f = f]
    IN  [f \in {fs[i].f : i \in 1..Len(fs)} |-> Default(FieldOf(f).ty)]

\* Option<T> from the decode of T
MapOk(d) == IF d.ok THEN Ok(Some(d.v)) ELSE d

\* Vec<T> from the decodes of the elements: the first that failed gives the
\* error
Collect(d) ==
    LET bad == {i \in DOMAIN d : ~d[i].ok}
    IN  IF bad # {} THEN d[MinOf(bad)]
        ELSE Ok([i \in DOMAIN d |-> d[i].v])

\* T::deserialize(v) for a field type T
Decode(ty, v) ==
    CASE ty.k = "int" ->
            IF v.k = "int" /\ InRange(ty.w, v.n) THEN Ok(v.n)
            ELSE Err([kind |-> "invalid type", at |-> ty.w])
      [] ty.k = "f32" ->
            IF v.k = "int" THEN Ok(v.n)
            ELSE Err([kind |-> "invalid type", at |-> "f32"])
      [] ty.k = "string" ->
            IF v.k = "str" THEN Ok(v.s)
            ELSE Err([kind |-> "invalid type", at |-> "string"])
      [] ty.k = "bool" ->
            IF v.k = "bool" THEN Ok(v.b)
            ELSE Err([kind |-> "invalid type", at |-> "bool"])
      [] ty.k = "value" -> Ok(v)
      [] ty.k = "color" -> DecodeColor(v)
      [] ty.k = "opt" ->
            IF v.k = "null" THEN Ok(None)
            ELSE MapOk(Decode(ty.of, v))
      [] ty.k = "vec" ->
            IF v.k # "arr" THEN Err([kind |-> "invalid type", at |-> "sequence"])
            ELSE Collect([i \in 1..Len(v.a) |-> Decode(ty.of, v.a[i])])
      [] ty.k = "enum" -> DecodeEnum(ty.name, v)
      [] ty.k = "struct" -> DecodeStruct(ty.name, v)

\* One field of a struct read from the object o: a key that is present is
\* decoded by the field's type; a key that is absent gives None for an
\* Option, the default under #[serde(default)], and otherwise the error
\* "missing field".  A #[serde(skip)] field is never read.
DecodeField(fd, o) ==
    IF fd.miss = "skip" THEN Ok(Default(fd.ty))
    ELSE IF fd.w \in DOMAIN o THEN Decode(fd.ty, o[fd.w])
    ELSE IF fd.miss = "default" THEN Ok(Default(fd.ty))
    ELSE IF fd.ty.k = "opt" THEN Ok(None)
    ELSE Err([kind |-> "missing field", at |-> fd.w])

\* The fields fs of a struct read from the object o, in declaration order.
DecodeFields(fs, o) == [i \in 1..Len(fs) |-> DecodeField(fs[i], o)]

\* The struct built from the decoded fields d: the first field that failed
\* gives the error.
BuildStruct(fs, d) ==
    LET bad == {i \in 1..Len(fs) : ~d[i].ok}
    IN  IF bad # {} THEN d[MinOf(bad)]
        ELSE Ok([f \in {fs[i].f : i \in 1..Len(fs)} |->
                    d[CHOOSE i \in 1..Len(fs) : fs[i].f = f].v])

\* The derived Deserialize of a struct from a JSON value: the value must be
\* an object; keys that name no field are ignored.
DecodeStruct(name, v) ==
    IF v.k # "obj" THEN Err([kind |-> "invalid type", at |-> name])
    ELSE BuildStruct(Fields(name), DecodeFields(Fields(name), v.o))

-----------------------------------------------------------------------------
(* Errors (error.rs).  e.to_string() of a cause is modelled by the cause.  *)

ApiError(cause) == [variant |-> "ApiError", msg |-> cause]
JsonParseError(cause) == [variant |-> "JsonParseError", msg |-> cause]

-----------------------------------------------------------------------------
(* The query resolver and the request executor (client.rs).                *)

MediaTypes == {"Anime", "Manga", "Character", "User", "Person", "Studio", "Unknown"}
Actions == {"Get", "Search"}

\* Client::get_query: the bundled document of (media_type, action); the
\* pairs with no document reach unimplemented!().
get_query(media_type, action) ==
    IF action = "Get"
    THEN CASE media_type = "Anime" -> Okay("get_anime.graphql", << >>)
           [] media_type = "Manga" -> Okay("get_manga.graphql", << >>)
           [] media_type = "Character" -> Okay("get_character.graphql", << >>)
           [] media_type = "User" -> Okay("get_user.graphql", << >>)
           [] media_type = "Person" -> Okay("get_person.graphql", << >>)
           [] OTHER -> Panic("not implemented", << >>)
    ELSE CASE media_type = "Anime" -> Okay("search_anime.graphql", << >>)
           [] media_type = "Manga" -> Okay("search_manga.graphql", << >>)
           [] media_type = "User" -> Okay("search_user.graphql", << >>)
           [] OTHER -> Panic("not implemented", << >>)

\* The answer of the network to one request: the request failed (no
\* connection, timeout, body not readable), or a body text arrived.  A body
\* is the text of a JSON document or some other text.
NetFail(cause) == [t |-> "fail", cause |-> cause]
NetJson(doc) == [t |-> "text", json |-> TRUE, doc |-> doc]
NetText(text) == [t |-> "text", json |-> FALSE, text |-> text]

\* serde_json::from_str::<Value>(body)
from_str(net) ==
    IF net.json THEN Ok(net.doc) ELSE Err([kind |-> "syntax", at |-> net.text])

\* Client::request without the `if let Some(token)` branch
BuildRequest_anonymous(self, query, variables) ==
    [url |-> "https://graphql.anilist.co/",
     content_type |-> "application/json",
     accept |-> "application/json",
     timeout |-> self.timeout,
     authorization |-> None,
     body |-> [query |-> query, variables |-> variables]]

\* The HTTP request Client::request builds.
BuildRequest(self, query, variables) ==
    [url |-> "https://graphql.anilist.co/",
     content_type |-> "application/json",
     accept |-> "application/json",
     timeout |-> self.timeout,
     authorization |-> IF self.api_token.some
                       THEN Some(<<"Bearer", self.api_token.v>>) ELSE None,
     body |-> [query |-> query, variables |-> variables]]

\* Client::request with a second attempt after a failed send
request_retried(self, media_type, action, variables, net) ==
    LET q == get_query(media_type, action)
    IN  IF q.st = "panic" THEN q
        ELSE LET req == BuildRequest(self, q.v, variables)
             IN  IF net.t = "fail"
                 THEN Error([kind |-> "reqwest", at |-> net.cause], <<req, req>>)
                 ELSE LET result == from_str(net)
                      IN  IF result.ok THEN Okay(result.v, <<req>>)
                          ELSE Panic("unwrap on Err", <<req>>)

\* Client::request
request(self, media_type, action, variables, net) ==
    LET q == get_query(media_type, action)
    IN  IF q.st = "panic" THEN q
        ELSE LET req == BuildRequest(self, q.v, variables)
             IN  IF net.t = "fail"
                 THEN Error([kind |-> "reqwest", at |-> net.cause], <<req>>)
                 ELSE LET result == from_str(net)
                      IN  IF result.ok THEN Okay(result.v, <<req>>)
                          ELSE Panic("unwrap on Err", <<req>>)

-----------------------------------------------------------------------------
(* The get operations (client.rs).                                         *)

\* serde_json::from_str::<T>(&value.to_string()): the text of a Value read
\* back as T is the derived Deserialize of T on that value.
from_value_text(name, value) == DecodeStruct(name, value)

\* a match that hands the decode error on as JsonParseError (#[from])
Matched_parse(d, sent) ==
    IF d.ok THEN Okay(d.v, sent) ELSE Error(JsonParseError(d.e), sent)

\* match serde_json::from_str::<T>(..) { Ok(x) => Ok(x), Err(e) => Err(ApiError(e)) }
Matched(d, sent) ==
    IF d.ok THEN Okay(d.v, sent) ELSE Error(ApiError(d.e), sent)

\* The body of a get operation up to the decoded record: `?` on the mapped
\* error of the request, then the record read from data[key].
Fetched(name, key, data) ==
    IF data.st = "panic" THEN data
    ELSE IF data.st = "err" THEN Error(ApiError(data.e), data.sent)
    ELSE Matched(from_value_text(name, Index(Index(data.v, "data"), key)),
                 data.sent)

\* Ok(mut x) => { x.client = self.clone(); x.is_full_loaded = true; Ok(x) }
Loaded(self, out) ==
    IF out.st = "ok"
    THEN Okay([out.v EXCEPT !.client = self, !.is_full_loaded = TRUE], out.sent)
    ELSE out

get_anime(self, id, net) ==
    Loaded(self, Fetched("Anime", "Media",
                         request(self, "Anime", "Get", [id |-> id], net)))

get_manga(self, id, net) ==
    Loaded(self, Fetched("Manga", "Media",
                         request(self, "Manga", "Get", [id |-> id], net)))

get_character(self, id, net) ==
    Loaded(self, Fetched("Character", "Character",
                         request(self, "Character", "Get", [id |-> id], net)))

\* get_user hands the decoded record on as it is (Ok(user) => Ok(user)):
\* neither client nor is_full_loaded is set.
get_user(self, id, net) ==
    Fetched("User", "User", request(self, "User", "Get", [id |-> id], net))

get_user_by_name(self, name, net) ==
    Loaded(self, Fetched("User", "User",
                         request(self, "User", "Get", [name |-> name], net)))

get_person(self, id, net) ==
    Loaded(self, Fetched("Person", "Staff",
                         request(self, "Person", "Get", [id |-> id], net)))

-----------------------------------------------------------------------------
(* The search operations (client.rs).  Each element of the answer's array  *)
(* is built field by field; Ok(record) below is the record built and Err   *)
(* an unwrap() that panicked.                                              *)

\* `x as i32` of an i64: every integer of the model lies within i32
as_i32(n) == n

\* The Anime { .. } / Manga { .. } literal of a search, from the decoded
\* parts and the defaults (..Default::default()).
MediaFromSearch(default, self, media, title, format, status, cover) ==
    LET id == as_i64(Index(media, "id"))
        description == as_str(Index(media, "description"))
        url == as_str(Index(media, "siteUrl"))
    IN  IF id.some /\ title.ok /\ format.ok /\ status.ok /\ description.some
           /\ cover.ok /\ url.some
        THEN Ok([default EXCEPT
                    !.id = id.v,
                    !.id_mal = as_i64(Index(media, "idMal")),
                    !.title = title.v,
                    !.format = format.v,
                    !.status = status.v,
                    !.description = description.v,
                    !.cover = cover.v,
                    !.banner = as_str(Index(media, "bannerImage")),
                    !.url = url.v,
                    !.client = self])
        ELSE Err("unwrap on None or Err")

AnimeFromSearch(self, media) ==
    MediaFromSearch(DefaultStruct("Anime"), self, media,
                    DecodeStruct("Title", Index(media, "title")),
                    DecodeEnum("Format", Index(media, "format")),
                    DecodeEnum("Status", Index(media, "status")),
                    DecodeStruct("Cover", Index(media, "coverImage")))

MangaFromSearch(self, media) ==
    MediaFromSearch(DefaultStruct("Manga"), self, media,
                    DecodeStruct("Title", Index(media, "title")),
                    DecodeEnum("Format", Index(media, "format")),
                    DecodeEnum("Status", Index(media, "status")),
                    DecodeStruct("Cover", Index(media, "coverImage")))

\* Result::ok
ok(r) == IF r.ok THEN Some(r.v) ELSE None

UserFromSearch(self, user) ==
    LET id == as_i64(Index(user, "id"))
        name == as_str(Index(user, "name"))
    IN  IF id.some /\ name.some
        THEN Ok([DefaultStruct("User") EXCEPT
                    !.id = as_i32(id.v),
                    !.name = name.v,
                    !.about = as_str(Index(user, "about")),
                    !.avatar = ok(DecodeStruct("Image", Index(user, "avatar"))),
                    !.banner = as_str(Index(user, "bannerImage")),
                    !.client = self])
        ELSE Err("unwrap on None")

\* result["data"]["Page"][key].as_array()
Medias(result, key) ==
    as_array(Index(Index(Index(result.v, "data"), "Page"), key))

\* The loop of a search operation over the records b built from the array's
\* elements: an element that could not be built is an unwrap() that
\* panicked, else the records are returned.
SearchResult(sent, b) ==
    IF \E i \in DOMAIN b : ~b[i].ok
    THEN Panic("unwrap on None or Err", sent)
    ELSE Okay(Some([i \in DOMAIN b |-> b[i].v]), sent)

SearchVars(title, page, limit) == [search |-> title, page |-> page, per_page |-> limit]

\* .unwrap() on the mapped error of the request
Unwrapped(result) ==
    IF result.st = "err" THEN Panic("unwrap on Err", result.sent) ELSE result

\* the rest of search_anime, from the answer of the request
AnimesOf(self, result) ==
    LET medias == Medias(result, "media")
    IN  IF result.st = "panic" THEN result
        ELSE IF ~medias.some THEN Okay(None, result.sent)
        ELSE SearchResult(result.sent,
                [i \in 1..Len(medias.v) |-> AnimeFromSearch(self, medias.v[i])])

MangasOf(self, result) ==
    LET medias == Medias(result, "media")
    IN  IF result.st = "panic" THEN result
        ELSE IF ~medias.some THEN Okay(None, result.sent)
        ELSE SearchResult(result.sent,
                [i \in 1..Len(medias.v) |-> MangaFromSearch(self, medias.v[i])])

UsersOf(self, result) ==
    LET users == Medias(result, "users")
    IN  IF result.st = "panic" THEN result
        ELSE IF ~users.some THEN Okay(None, result.sent)
        ELSE SearchResult(result.sent,
                [i \in 1..Len(users.v) |-> UserFromSearch(self, users.v[i])])

search_anime(self, title, page, limit, net) ==
    AnimesOf(self, Unwrapped(request(self, "Anime", "Search",
                                     SearchVars(title, page, limit), net)))

search_manga(self, title, page, limit, net) ==
    MangasOf(self, Unwrapped(request(self, "Manga", "Search",
                                     SearchVars(title, page, limit), net)))

search_user(self, name, page, limit, net) ==
    UsersOf(self, Unwrapped(request(self, "User", "Search",
                                    SearchVars(name, page, limit), net)))

-----------------------------------------------------------------------------
(* The lazy loader (anime.rs, manga.rs, user.rs).                          *)

\* a loader that does not look at the flag
Anime_load_full_unguarded(self, net) == get_anime(self.client, self.id, net)

Anime_load_full(self, net) ==
    IF ~self.is_full_loaded THEN get_anime(self.client, self.id, net)
    ELSE Panic("This anime is already full loaded!", << >>)

Manga_load_full(self, net) ==
    IF ~self.is_full_loaded THEN get_manga(self.client, self.id, net)
    ELSE Panic("This manga is already full loaded", << >>)

User_load_full(self, net) ==
    IF ~self.is_full_loaded THEN get_user(self.client, self.id, net)
    ELSE Panic("This user is already full loaded", << >>)

load_full(ty, self, net) ==
    CASE ty = "Anime" -> Anime_load_full(self, net)
      [] ty = "Manga" -> Manga_load_full(self, net)
      [] ty = "User" -> User_load_full(self, net)


-----------------------------------------------------------------------------
(* The conversions from text (color.rs, format.rs, season.rs, source.rs).  *)
(* str::trim and str::to_uppercase are given on the texts of the model by  *)
(* their tables; a text that is in no table is its own trimmed and upper   *)
(* case form.  The texts are ASCII, where to_ascii_uppercase and           *)
(* to_uppercase agree.                                                     *)

\* <<text with leading and trailing whitespace, the text trimmed>>
Padded ==
    { <<" blue ", "blue">>, <<" BLUE ", "BLUE">>, <<" purple ", "purple">>,
      <<" PURPLE ", "PURPLE">>, <<" pink ", "pink">>, <<" PINK ", "PINK">>,
      <<" orange ", "orange">>, <<" ORANGE ", "ORANGE">>, <<" red ", "red">>,
      <<" RED ", "RED">>, <<" green ", "green">>, <<" GREEN ", "GREEN">>,
      <<" gray ", "gray">>, <<" GRAY ", "GRAY">>, <<" tv ", "tv">>,
      <<" TV ", "TV">>, <<" tv_short ", "tv_short">>,
      <<" TV_SHORT ", "TV_SHORT">>, <<" movie ", "movie">>,
      <<" MOVIE ", "MOVIE">>, <<" special ", "special">>,
      <<" SPECIAL ", "SPECIAL">>, <<" ova ", "ova">>, <<" OVA ", "OVA">>,
      <<" ona ", "ona">>, <<" ONA ", "ONA">>, <<" music ", "music">>,
      <<" MUSIC ", "MUSIC">>, <<" manga ", "manga">>, <<" MANGA ", "MANGA">>,
      <<" novel ", "novel">>, <<" NOVEL ", "NOVEL">>,
      <<" one_shot ", "one_shot">>, <<" ONE_SHOT ", "ONE_SHOT">>,
      <<" winter ", "winter">>, <<" WINTER ", "WINTER">>,
      <<" spring ", "spring">>, <<" SPRING ", "SPRING">>,
      <<" summer ", "summer">>, <<" SUMMER ", "SUMMER">>,
      <<" fall ", "fall">>, <<" FALL ", "FALL">>,
      <<" original ", "original">>, <<" ORIGINAL ", "ORIGINAL">>,
      <<" light_novel ", "light_novel">>, <<" LIGHT_NOVEL ", "LIGHT_NOVEL">>,
      <<" visual_novel ", "visual_novel">>,
      <<" VISUAL_NOVEL ", "VISUAL_NOVEL">>, <<" video_game ", "video_game">>,
      <<" VIDEO_GAME ", "VIDEO_GAME">>, <<" other ", "other">>,
      <<" OTHER ", "OTHER">>, <<" doujinshi ", "doujinshi">>,
      <<" DOUJINSHI ", "DOUJINSHI">>, <<" anime ", "anime">>,
      <<" ANIME ", "ANIME">>, <<" web_novel ", "web_novel">>,
      <<" WEB_NOVEL ", "WEB_NOVEL">>, <<" live_action ", "live_action">>,
      <<" LIVE_ACTION ", "LIVE_ACTION">>, <<" game ", "game">>,
      <<" GAME ", "GAME">>, <<" comic ", "comic">>, <<" COMIC ", "COMIC">>,
      <<" multimedia_project ", "multimedia_project">>,
      <<" MULTIMEDIA_PROJECT ", "MULTIMEDIA_PROJECT">>,
      <<" picture_book ", "picture_book">>,
      <<" PICTURE_BOOK ", "PICTURE_BOOK">>, <<" #ff5733 ", "#ff5733">> }

\* <<text, the text in upper case>>
Cased ==
    { <<"blue", "BLUE">>, <<"Blue", "BLUE">>, <<" blue ", " BLUE ">>,
      <<"purple", "PURPLE">>, <<"Purple", "PURPLE">>,
      <<" purple ", " PURPLE ">>, <<"pink", "PINK">>, <<"Pink", "PINK">>,
      <<" pink ", " PINK ">>, <<"orange", "ORANGE">>, <<"Orange", "ORANGE">>,
      <<" orange ", " ORANGE ">>, <<"red", "RED">>, <<"Red", "RED">>,
      <<" red ", " RED ">>, <<"green", "GREEN">>, <<"Green", "GREEN">>,
      <<" green ", " GREEN ">>, <<"gray", "GRAY">>, <<"Gray", "GRAY">>,
      <<" gray ", " GRAY ">>, <<"tv", "TV">>, <<"Tv", "TV">>,
      <<" tv ", " TV ">>, <<"tv_short", "TV_SHORT">>,
      <<"Tv_short", "TV_SHORT">>, <<" tv_short ", " TV_SHORT ">>,
      <<"movie", "MOVIE">>, <<"Movie", "MOVIE">>, <<" movie ", " MOVIE ">>,
      <<"special", "SPECIAL">>, <<"Special", "SPECIAL">>,
      <<" special ", " SPECIAL ">>, <<"ova", "OVA">>, <<"Ova", "OVA">>,
      <<" ova ", " OVA ">>, <<"ona", "ONA">>, <<"Ona", "ONA">>,
      <<" ona ", " ONA ">>, <<"music", "MUSIC">>, <<"Music", "MUSIC">>,
      <<" music ", " MUSIC ">>, <<"manga", "MANGA">>, <<"Manga", "MANGA">>,
      <<" manga ", " MANGA ">>, <<"novel", "NOVEL">>, <<"Novel", "NOVEL">>,
      <<" novel ", " NOVEL ">>, <<"one_shot", "ONE_SHOT">>,
      <<"One_shot", "ONE_SHOT">>, <<" one_shot ", " ONE_SHOT ">>,
      <<"winter", "WINTER">>, <<"Winter", "WINTER">>,
      <<" winter ", " WINTER ">>, <<"spring", "SPRING">>,
      <<"Spring", "SPRING">>, <<" spring ", " SPRING ">>,
      <<"summer", "SUMMER">>, <<"Summer", "SUMMER">>,
      <<" summer ", " SUMMER ">>, <<"fall", "FALL">>, <<"Fall", "FALL">>,
      <<" fall ", " FALL ">>, <<"original", "ORIGINAL">>,
      <<"Original", "ORIGINAL">>, <<" original ", " ORIGINAL ">>,
      <<"light_novel", "LIGHT_NOVEL">>, <<"Light_novel", "LIGHT_NOVEL">>,
      <<" light_novel ", " LIGHT_NOVEL ">>,
      <<"visual_novel", "VISUAL_NOVEL">>, <<"Visual_novel", "VISUAL_NOVEL">>,
      <<" visual_novel ", " VISUAL_NOVEL ">>, <<"video_game", "VIDEO_GAME">>,
      <<"Video_game", "VIDEO_GAME">>, <<" video_game ", " VIDEO_GAME ">>,
      <<"other", "OTHER">>, <<"Other", "OTHER">>, <<" other ", " OTHER ">>,
      <<"doujinshi", "DOUJINSHI">>, <<"Doujinshi", "DOUJINSHI">>,
      <<" doujinshi ", " DOUJINSHI ">>, <<"anime", "ANIME">>,
      <<"Anime", "ANIME">>, <<" anime ", " ANIME ">>,
      <<"web_novel", "WEB_NOVEL">>, <<"Web_novel", "WEB_NOVEL">>,
      <<" web_novel ", " WEB_NOVEL ">>, <<"live_action", "LIVE_ACTION">>,
      <<"Live_action", "LIVE_ACTION">>, <<" live_action ", " LIVE_ACTION ">>,
      <<"game", "GAME">>, <<"Game", "GAME">>, <<" game ", " GAME ">>,
      <<"comic", "COMIC">>, <<"Comic", "COMIC">>, <<" comic ", " COMIC ">>,
      <<"multimedia_project", "MULTIMEDIA_PROJECT">>,
      <<"Multimedia_project", "MULTIMEDIA_PROJECT">>,
      <<" multimedia_project ", " MULTIMEDIA_PROJECT ">>,
      <<"picture_book", "PICTURE_BOOK">>, <<"Picture_book", "PICTURE_BOOK">>,
      <<" picture_book ", " PICTURE_BOOK ">>, <<"unknown", "UNKNOWN">>,
      <<"#ff5733", "#FF5733">>, <<"TV Short", "TV SHORT">>,
      <<"One-Shot", "ONE-SHOT">>, <<" #ff5733 ", " #FF5733 ">>,
      <<"ja", "JA">>, <<"en", "EN">>, <<"ko", "KO">>,
      <<"it", "IT">>, <<"es", "ES">>, <<"pt", "PT">>,
      <<"fr", "FR">>, <<"de", "DE">>, <<"he", "HE">>,
      <<"hu", "HU">>, <<"zh", "ZH">>, <<"ar", "AR">>,
      <<"fil", "FIL">>, <<"ca", "CA">>, <<"fi", "FI">>,
      <<"tr", "TR">>, <<"nl", "NL">>, <<"sv", "SV">>,
      <<"th", "TH">>, <<"tl", "TL">>, <<"ms", "MS">>,
      <<"id", "ID">>, <<"vi", "VI">>, <<"ne", "NE">>,
      <<"hi", "HI">>, <<"ur", "UR">>, <<"Japanese", "JAPANESE">>,
      <<"English", "ENGLISH">>, <<"Korean", "KOREAN">>, <<"Italian", "ITALIAN">>,
      <<"Spanish", "SPANISH">>, <<"Portuguese", "PORTUGUESE">>, <<"French", "FRENCH">>,
      <<"German", "GERMAN">>, <<"Hebrew", "HEBREW">>, <<"Hungarian", "HUNGARIAN">>,
      <<"Chinese", "CHINESE">>, <<"Arabic", "ARABIC">>, <<"Filipino", "FILIPINO">>,
      <<"Catalan", "CATALAN">>, <<"Finnish", "FINNISH">>, <<"Turkish", "TURKISH">>,
      <<"Dutch", "DUTCH">>, <<"Swedish", "SWEDISH">>, <<"Thai", "THAI">>,
      <<"Tagalog", "TAGALOG">>, <<"Malaysian", "MALAYSIAN">>, <<"Indonesian", "INDONESIAN">>,
      <<"Vietnamese", "VIETNAMESE">>, <<"Nepali", "NEPALI">>, <<"Hindi", "HINDI">>,
      <<"Urdu", "URDU">>, <<"Light Novel", "LIGHT NOVEL">>, <<"Visual Novel", "VISUAL NOVEL">>,
      <<"Video Game", "VIDEO GAME">>, <<"Web Novel", "WEB NOVEL">>, <<"Live Action", "LIVE ACTION">>,
      <<"Multimedia Project", "MULTIMEDIA PROJECT">>, <<"Picture Book", "PICTURE BOOK">> }

\* str::trim
trim(s) ==
    IF \E p \in Padded : p[1] = s
    THEN (CHOOSE p \in Padded : p[1] = s)[2] ELSE s

\* str::to_uppercase
to_uppercase(s) ==
    IF \E p \in Cased : p[1] = s
    THEN (CHOOSE p \in Cased : p[1] = s)[2] ELSE s

\* impl From<&str> for Color
Color_from(value) ==
    CASE to_uppercase(trim(value)) = "BLUE" -> ColorNamed("Blue")
      [] to_uppercase(trim(value)) = "PURPLE" -> ColorNamed("Purple")
      [] to_uppercase(trim(value)) = "PINK" -> ColorNamed("Pink")
      [] to_uppercase(trim(value)) = "ORANGE" -> ColorNamed("Orange")
      [] to_uppercase(trim(value)) = "RED" -> ColorNamed("Red")
      [] to_uppercase(trim(value)) = "GREEN" -> ColorNamed("Green")
      [] to_uppercase(trim(value)) = "GRAY" -> ColorNamed("Gray")
      [] OTHER -> ColorHex(value)

\* Color::hex
Color_hex(self) == IF self.c = "Hex" THEN Some(self.hex) ELSE None

\* From<&str> for Format that compares the text as it is
Format_from_exact(value) ==
    IF \E p \in EnumWire("Format") : p[1] = value
    THEN (CHOOSE p \in EnumWire("Format") : p[1] = value)[2]
    ELSE EnumDefault("Format")

\* impl From<&str> for Format
Format_from(value) ==
    CASE to_uppercase(trim(value)) = "TV" -> "Tv"
      [] to_uppercase(trim(value)) = "TV_SHORT" -> "TvShort"
      [] to_uppercase(trim(value)) = "MOVIE" -> "Movie"
      [] to_uppercase(trim(value)) = "SPECIAL" -> "Special"
      [] to_uppercase(trim(value)) = "OVA" -> "Ova"
      [] to_uppercase(trim(value)) = "ONA" -> "Ona"
      [] to_uppercase(trim(value)) = "MUSIC" -> "Music"
      [] to_uppercase(trim(value)) = "MANGA" -> "Manga"
      [] to_uppercase(trim(value)) = "NOVEL" -> "Novel"
      [] to_uppercase(trim(value)) = "ONE_SHOT" -> "OneShot"
      [] OTHER -> EnumDefault("Format")

\* impl From<&str> for Season
Season_from(value) ==
    CASE to_uppercase(trim(value)) = "WINTER" -> "Winter"
      [] to_uppercase(trim(value)) = "SPRING" -> "Spring"
      [] to_uppercase(trim(value)) = "SUMMER" -> "Summer"
      [] to_uppercase(trim(value)) = "FALL" -> "Fall"
      [] OTHER -> EnumDefault("Season")

\* impl From<&str> for Source: source.to_ascii_uppercase(), not trimmed
Source_from(source) ==
    CASE to_uppercase(source) = "ORIGINAL" -> "Original"
      [] to_uppercase(source) = "MANGA" -> "Manga"
      [] to_uppercase(source) = "LIGHT_NOVEL" -> "LightNovel"
      [] to_uppercase(source) = "VISUAL_NOVEL" -> "VisualNovel"
      [] to_uppercase(source) = "VIDEO_GAME" -> "VideoGame"
      [] to_uppercase(source) = "OTHER" -> "Other"
      [] to_uppercase(source) = "NOVEL" -> "Novel"
      [] to_uppercase(source) = "DOUJINSHI" -> "Doujinshi"
      [] to_uppercase(source) = "ANIME" -> "Anime"
      [] to_uppercase(source) = "WEB_NOVEL" -> "WebNovel"
      [] to_uppercase(source) = "LIVE_ACTION" -> "LiveAction"
      [] to_uppercase(source) = "GAME" -> "Game"
      [] to_uppercase(source) = "COMIC" -> "Comic"
      [] to_uppercase(source) = "MULTIMEDIA_PROJECT" -> "MultimediaProject"
      [] to_uppercase(source) = "PICTURE_BOOK" -> "PictureBook"
      [] OTHER -> "Other"

\* impl From<String> for Color, Format, Season, Source:
\* T::from(value.as_str())
From_String(ty, value) ==
    CASE ty = "Color" -> Color_from(value)
      [] ty = "Format" -> Format_from(value)
      [] ty = "Season" -> Season_from(value)
      [] ty = "Source" -> Source_from(value)

\* Language::code
Language_code(self) ==
    CASE self = "Japanese" -> "ja"
      [] self = "English" -> "en"
      [] self = "Korean" -> "ko"
      [] self = "Italian" -> "it"
      [] self = "Spanish" -> "es"
      [] self = "Portuguese" -> "pt"
      [] self = "French" -> "fr"
      [] self = "German" -> "de"
      [] self = "Hebrew" -> "he"
      [] self = "Hungarian" -> "hu"
      [] self = "Chinese" -> "zh"
      [] self = "Arabic" -> "ar"
      [] self = "Filipino" -> "fil"
      [] self = "Catalan" -> "ca"
      [] self = "Finnish" -> "fi"
      [] self = "Turkish" -> "tr"
      [] self = "Dutch" -> "nl"
      [] self = "Swedish" -> "sv"
      [] self = "Thai" -> "th"
      [] self = "Tagalog" -> "tl"
      [] self = "Malaysian" -> "ms"
      [] self = "Indonesian" -> "id"
      [] self = "Vietnamese" -> "vi"
      [] self = "Nepali" -> "ne"
      [] self = "Hindi" -> "hi"
      [] self = "Urdu" -> "ur"

\* impl From<&str> for Language
Language_from(value) ==
    CASE to_uppercase(trim(value)) \in {"JA", "JP", "JAPANESE"} -> "Japanese"
      [] to_uppercase(trim(value)) \in {"EN", "UK", "ENGLISH"} -> "English"
      [] to_uppercase(trim(value)) \in {"KO", "KOREAN"} -> "Korean"
      [] to_uppercase(trim(value)) \in {"IT", "ITALIAN"} -> "Italian"
      [] to_uppercase(trim(value)) \in {"ES", "SPANISH"} -> "Spanish"
      [] to_uppercase(trim(value)) \in {"PT", "PORTUGUESE"} -> "Portuguese"
      [] to_uppercase(trim(value)) \in {"FR", "FRENCH"} -> "French"
      [] to_uppercase(trim(value)) \in {"DE", "GERMAN"} -> "German"
      [] to_uppercase(trim(value)) \in {"HE", "HEBREW"} -> "Hebrew"
      [] to_uppercase(trim(value)) \in {"HU", "HUNGARIAN"} -> "Hungarian"
      [] to_uppercase(trim(value)) \in {"ZH", "CHINESE"} -> "Chinese"
      [] to_uppercase(trim(value)) \in {"AR", "ARABIC"} -> "Arabic"
      [] to_uppercase(trim(value)) \in {"FIL", "PHILIPPINE"} -> "Filipino"
      [] to_uppercase(trim(value)) \in {"CA", "CATALAN"} -> "Catalan"
      [] to_uppercase(trim(value)) \in {"FI", "FINNISH"} -> "Finnish"
      [] to_uppercase(trim(value)) \in {"TR", "TURKISH"} -> "Turkish"
      [] to_uppercase(trim(value)) \in {"NL", "DUTCH"} -> "Dutch"
      [] to_uppercase(trim(value)) \in {"SV", "SWEDISH"} -> "Swedish"
      [] to_uppercase(trim(value)) \in {"TH", "THAI"} -> "Thai"
      [] to_uppercase(trim(value)) \in {"TL", "TAGALOG"} -> "Tagalog"
      [] to_uppercase(trim(value)) \in {"MS", "MALAYSIAN"} -> "Malaysian"
      [] to_uppercase(trim(value)) \in {"ID", "INDONESIAN"} -> "Indonesian"
      [] to_uppercase(trim(value)) \in {"VI", "VIETNAMESE"} -> "Vietnamese"
      [] to_uppercase(trim(value)) \in {"NE", "NEPALI"} -> "Nepali"
      [] to_uppercase(trim(value)) \in {"HI", "HINDI"} -> "Hindi"
      [] to_uppercase(trim(value)) \in {"UR", "URDU"} -> "Urdu"
      [] OTHER -> EnumDefault("Language")

\* impl Display for Language
Language_fmt(self) ==
    CASE self = "Japanese" -> "Japanese"
      [] self = "English" -> "English"
      [] self = "Korean" -> "Korean"
      [] self = "Italian" -> "Italian"
      [] self = "Spanish" -> "Spanish"
      [] self = "Portuguese" -> "Portuguese"
      [] self = "French" -> "French"
      [] self = "German" -> "German"
      [] self = "Hebrew" -> "Hebrew"
      [] self = "Hungarian" -> "Hungarian"
      [] self = "Chinese" -> "Chinese"
      [] self = "Arabic" -> "Arabic"
      [] self = "Filipino" -> "Filipino"
      [] self = "Catalan" -> "Catalan"
      [] self = "Finnish" -> "Finnish"
      [] self = "Turkish" -> "Turkish"
      [] self = "Dutch" -> "Dutch"
      [] self = "Swedish" -> "Swedish"
      [] self = "Thai" -> "Thai"
      [] self = "Tagalog" -> "Tagalog"
      [] self = "Malaysian" -> "Malaysian"
      [] self = "Indonesian" -> "Indonesian"
      [] self = "Vietnamese" -> "Vietnamese"
      [] self = "Nepali" -> "Nepali"
      [] self = "Hindi" -> "Hindi"
      [] self = "Urdu" -> "Urdu"

\* Format::name; the Display of a format writes self.name()
Format_name(self) ==
    CASE self = "Tv" -> "TV"
      [] self = "TvShort" -> "TV Short"
      [] self = "Movie" -> "Movie"
      [] self = "Special" -> "Special"
      [] self = "Ova" -> "OVA"
      [] self = "Ona" -> "ONA"
      [] self = "Music" -> "Music"
      [] self = "Manga" -> "Manga"
      [] self = "Novel" -> "Novel"
      [] self = "OneShot" -> "One-Shot"

\* Season::name; the Display of a season writes self.name()
Season_name(self) ==
    CASE self = "Winter" -> "Winter"
      [] self = "Spring" -> "Spring"
      [] self = "Summer" -> "Summer"
      [] self = "Fall" -> "Fall"

\* impl Display for Source
Source_fmt(self) ==
    CASE self = "Original" -> "Original"
      [] self = "Manga" -> "Manga"
      [] self = "LightNovel" -> "Light Novel"
      [] self = "VisualNovel" -> "Visual Novel"
      [] self = "VideoGame" -> "Video Game"
      [] self = "Other" -> "Other"
      [] self = "Novel" -> "Novel"
      [] self = "Doujinshi" -> "Doujinshi"
      [] self = "Anime" -> "Anime"
      [] self = "WebNovel" -> "Web Novel"
      [] self = "LiveAction" -> "Live Action"
      [] self = "Game" -> "Game"
      [] self = "Comic" -> "Comic"
      [] self = "MultimediaProject" -> "Multimedia Project"
      [] self = "PictureBook" -> "Picture Book"

-----------------------------------------------------------------------------
(* The on-demand unwrap of the raw sub-documents (anime.rs, manga.rs,      *)
(* relation.rs, media.rs).  An accessor returns a value or panics: it      *)
(* sends nothing.  character.role = Some(role.into()): the conversion is   *)
(* in models/character.rs, which is not in src/; the role is kept as the   *)
(* string of the edge.                                                     *)

\* Anime::characters
Anime_characters(self) ==
    IF \/ self.characters.k # "obj"
       \/ "edges" \notin DOMAIN self.characters.o
       \/ self.characters.o["edges"].k # "arr"
    THEN Panic("unwrap on None", << >>)
    ELSE LET edges == self.characters.o["edges"].a
         IN  IF \E i \in DOMAIN edges : edges[i].k # "obj"
             THEN Panic("unwrap on None", << >>)
             ELSE IF \E i \in DOMAIN edges :
                        \/ "node" \notin DOMAIN edges[i].o
                        \/ "role" \notin DOMAIN edges[i].o
                        \/ edges[i].o["role"].k # "str"
             THEN Panic("unwrap on None", << >>)
             ELSE LET kept == SelectSeq(edges, LAMBDA e :
                                  DecodeStruct("Character", e.o["node"]).ok)
                  IN  Okay([i \in DOMAIN kept |->
                              [DecodeStruct("Character", kept[i].o["node"]).v
                                 EXCEPT !.role = Some(kept[i].o["role"].s)]],
                           << >>)

\* Anime::relations
Anime_relations(self) ==
    IF \/ self.relations.k # "obj"
       \/ "edges" \notin DOMAIN self.relations.o
       \/ self.relations.o["edges"].k # "arr"
    THEN Panic("unwrap on None", << >>)
    ELSE LET edges == self.relations.o["edges"].a
         IN  IF \E i \in DOMAIN edges : ~DecodeStruct("Relation", edges[i]).ok
             THEN Panic("unwrap on Err", << >>)
             ELSE Okay([i \in DOMAIN edges |->
                          DecodeStruct("Relation", edges[i]).v], << >>)

\* a characters() that gives no characters for a document with no edges
\* array
Manga_characters_tolerant(self) ==
    IF \/ self.characters.k # "obj"
       \/ "edges" \notin DOMAIN self.characters.o
       \/ self.characters.o["edges"].k # "arr"
    THEN Okay(<< >>, << >>)
    ELSE Anime_characters(self)

\* Manga::characters
Manga_characters(self) ==
    IF \/ self.characters.k # "obj"
       \/ "edges" \notin DOMAIN self.characters.o
       \/ self.characters.o["edges"].k # "arr"
    THEN Panic("unwrap on None", << >>)
    ELSE LET edges == self.characters.o["edges"].a
         IN  IF \E i \in DOMAIN edges : edges[i].k # "obj"
             THEN Panic("unwrap on None", << >>)
             ELSE IF \E i \in DOMAIN edges :
                        \/ "node" \notin DOMAIN edges[i].o
                        \/ "role" \notin DOMAIN edges[i].o
                        \/ edges[i].o["role"].k # "str"
             THEN Panic("unwrap on None", << >>)
             ELSE LET kept == SelectSeq(edges, LAMBDA e :
                                  DecodeStruct("Character", e.o["node"]).ok)
                  IN  Okay([i \in DOMAIN kept |->
                              [DecodeStruct("Character", kept[i].o["node"]).v
                                 EXCEPT !.role = Some(kept[i].o["role"].s)]],
                           << >>)

\* Manga::relations
Manga_relations(self) ==
    IF \/ self.relations.k # "obj"
       \/ "edges" \notin DOMAIN self.relations.o
       \/ self.relations.o["edges"].k # "arr"
    THEN Panic("unwrap on None", << >>)
    ELSE LET edges == self.relations.o["edges"].a
         IN  IF \E i \in DOMAIN edges : ~DecodeStruct("Relation", edges[i]).ok
             THEN Panic("unwrap on Err", << >>)
             ELSE Okay([i \in DOMAIN edges |->
                          DecodeStruct("Relation", edges[i]).v], << >>)

\* Title::romaji
Title_romaji(self) == IF self.romaji.some THEN self.romaji.v ELSE self.native

\* The Anime { .. } / Manga { .. } literal of Relation::media, from the
\* decoded parts and the defaults; as_u64().map(|x| x as u8) keeps the low
\* eight bits of a non-negative number.
MediaFromRelation(default, media, title, format, status, cover) ==
    LET id == as_i64(Index(media, "id"))
        description == as_str(Index(media, "description"))
        url == as_str(Index(media, "siteUrl"))
        average == Index(media, "averageScore")
        mean == Index(media, "meanScore")
    IN  IF id.some /\ title.ok /\ format.ok /\ status.ok /\ description.some
           /\ cover.ok /\ url.some
        THEN Ok([default EXCEPT
                    !.id = id.v,
                    !.id_mal = as_i64(Index(media, "idMal")),
                    !.title = title.v,
                    !.format = format.v,
                    !.status = status.v,
                    !.description = description.v,
                    !.cover = cover.v,
                    !.banner = as_str(Index(media, "bannerImage")),
                    !.average_score =
                        IF average.k = "int" /\ average.n >= 0
                        THEN Some(average.n % 256) ELSE None,
                    !.mean_score =
                        IF mean.k = "int" /\ mean.n >= 0
                        THEN Some(mean.n % 256) ELSE None,
                    !.url = url.v])
        ELSE Err("unwrap on None or Err")

\* Media::Anime(Anime { .. }) and Media::Manga(Manga { .. }): the variant
\* around the literal, or the panic of an unwrap() in the literal
MediaVariant(variant, built) ==
    IF built.ok THEN Okay([variant |-> variant, record |-> built.v], << >>)
    ELSE Panic(built.e, << >>)

\* Relation::media with two arms: every node that is no anime is a manga
Relation_media_binary(self) ==
    IF as_str(Index(self.node, "type")) = Some("ANIME")
    THEN MediaVariant("Anime",
             MediaFromRelation(DefaultStruct("Anime"), self.node,
                 DecodeStruct("Title", Index(self.node, "title")),
                 DecodeEnum("Format", Index(self.node, "format")),
                 DecodeEnum("Status", Index(self.node, "status")),
                 DecodeStruct("Cover", Index(self.node, "coverImage"))))
    ELSE MediaVariant("Manga",
             MediaFromRelation(DefaultStruct("Manga"), self.node,
                 DecodeStruct("Title", Index(self.node, "title")),
                 DecodeEnum("Format", Index(self.node, "format")),
                 DecodeEnum("Status", Index(self.node, "status")),
                 DecodeStruct("Cover", Index(self.node, "coverImage"))))

\* Relation::media
Relation_media(self) ==
    IF as_str(Index(self.node, "type")) = Some("ANIME")
    THEN MediaVariant("Anime",
             MediaFromRelation(DefaultStruct("Anime"), self.node,
                 DecodeStruct("Title", Index(self.node, "title")),
                 DecodeEnum("Format", Index(self.node, "format")),
                 DecodeEnum("Status", Index(self.node, "status")),
                 DecodeStruct("Cover", Index(self.node, "coverImage"))))
    ELSE IF as_str(Index(self.node, "type")) = Some("MANGA")
    THEN MediaVariant("Manga",
             MediaFromRelation(DefaultStruct("Manga"), self.node,
                 DecodeStruct("Title", Index(self.node, "title")),
                 DecodeEnum("Format", Index(self.node, "format")),
                 DecodeEnum("Status", Index(self.node, "status")),
                 DecodeStruct("Cover", Index(self.node, "coverImage"))))
    ELSE Okay([variant |-> "Unknown"], << >>)

\* Media::id, Media::title, Media::format
Media_id(self) == IF self.variant = "Unknown" THEN 0 ELSE self.record.id

Media_title(self) ==
    IF self.variant = "Unknown" THEN "Unknown" ELSE Title_romaji(self.record.title)

Media_format(self) ==
    IF self.variant = "Unknown" THEN None ELSE Some(self.record.format)

-----------------------------------------------------------------------------
(* The answers of the service: the inputs of the operations.               *)

Ids == 1..MaxId

TitleObj ==
    [romaji |-> JStr("Cowboy Bebop"), english |-> JStr("Cowboy Bebop"),
     native |-> JStr("kaubooi bibappu"), userPreferred |-> JStr("Cowboy Bebop")]

CoverObj ==
    [extraLarge |-> JStr("xl.jpg"), large |-> JStr("l.jpg"),
     medium |-> JStr("m.jpg"), color |-> JStr("#f13500")]

EdgesDoc == JObj([edges |-> JArr(<< >>)])

\* a well-formed media node
MediaObj(id) ==
    [id |-> JInt(id), idMal |-> JInt(id), title |-> JObj(TitleObj),
     format |-> JStr("TV"), status |-> JStr("FINISHED"),
     description |-> JStr("space western"), season |-> JStr("SPRING"),
     source |-> JStr("ORIGINAL"), coverImage |-> JObj(CoverObj),
     bannerImage |-> JStr("banner.jpg"), averageScore |-> JInt(86),
     relations |-> EdgesDoc, characters |-> EdgesDoc,
     isAdult |-> JBool(FALSE), siteUrl |-> JStr("https://anilist.co/1")]

LinkObj(linkType, language) ==
    [id |-> JInt(7), url |-> JStr("https://example.org/watch"),
     site |-> JStr("Example"), linkType |-> JStr(linkType),
     language |-> JStr(language)]

\* media nodes in which one optional or free-text field is absent or null
MediaOptionalDefects(o) ==
    { Without(o, "idMal"), With(o, "idMal", JNull),
      With(o, "bannerImage", JNull), Without(o, "bannerImage"),
      With(o, "description", JNull), Without(o, "description"),
      With(o, "title", JObj(Without(TitleObj, "native"))),
      With(o, "title", JObj(With(TitleObj, "native", JNull))),
      With(o, "title", JObj(Without(TitleObj, "romaji"))),
      With(o, "title", JObj(With(TitleObj, "english", JNull))) }

\* media nodes in which one enum field holds a string that is no wire name
MediaEnumDefects(o) ==
    { With(o, "format", JStr("TV_SPECIAL")),
      With(o, "status", JStr("ON_BREAK")),
      With(o, "season", JStr("AUTUMN")),
      With(o, "source", JStr("PODCAST")),
      With(o, "externalLinks", JArr(<< JObj(LinkObj("SHOP", "Japanese")) >>)),
      With(o, "externalLinks", JArr(<< JObj(LinkObj("INFO", "Klingon")) >>)) }

\* media nodes in which one field has the wrong type or is missing
MediaTypeDefects(o) ==
    { Without(o, "id"), With(o, "id", JStr("1")),
      With(o, "title", JNull), With(o, "format", JNull),
      With(o, "coverImage", JNull), With(o, "averageScore", JInt(300)),
      Without(o, "siteUrl"), Without(o, "isAdult"), Without(o, "relations") }

StatisticsObj == [count |-> JInt(3), statuses |-> JArr(<< >>)]

OptionsObj(notification) ==
    [profileColor |-> JStr("blue"),
     notificationsOptions |->
        JArr(<< JObj([notificationType |-> JStr(notification),
                      enabled |-> JBool(TRUE)]) >>)]

\* a well-formed user node
UserObj(id) ==
    [id |-> JInt(id), name |-> JStr("andrielfr"), about |-> JStr("hi"),
     avatar |-> JObj([large |-> JStr("l.png"), medium |-> JStr("m.png")]),
     bannerImage |-> JStr("banner.png"), donatorBadge |-> JStr("Donator"),
     donatorTier |-> JInt(0), options |-> JObj(OptionsObj("AIRING")),
     siteUrl |-> JStr("https://anilist.co/user/1"),
     statistics |-> JObj([anime |-> JObj(StatisticsObj),
                          manga |-> JObj(StatisticsObj)]),
     createdAt |-> JInt(1), updatedAt |-> JInt(2)]

UserOptionalDefects(o) ==
    { With(o, "about", JNull), Without(o, "about"),
      With(o, "avatar", JNull), Without(o, "avatar"),
      With(o, "bannerImage", JNull), Without(o, "bannerImage") }

UserEnumDefects(o) ==
    { With(o, "options", JObj(OptionsObj("FUTURE_EVENT"))) }

UserTypeDefects(o) ==
    { Without(o, "id"), With(o, "id", JStr("1")), Without(o, "name"),
      Without(o, "statistics") }

\* a well-formed character or person node
PersonObj(id) == [id |-> JInt(id), siteUrl |-> JStr("https://anilist.co/p/1")]

PersonDefects(o) == { Without(o, "id"), With(o, "id", JNull) }

\* The envelope of a get answer, of a search answer and of a service error.
GetEnvelope(key, node) == JObj([data |-> JObj((key :> node))])

SearchEnvelope(key, nodes) ==
    JObj([data |-> JObj([Page |-> JObj((key :> JArr(nodes)))])])

ErrorEnvelope ==
    JObj([data |-> JNull,
          errors |-> JArr(<< JObj([message |-> JStr("Not Found."),
                                   status |-> JInt(404)]) >>)])

\* the well-formed node of a kind with the given id, and its defective forms
Node(kind, id) ==
    CASE kind = "media" -> JObj(MediaObj(id))
      [] kind = "users" -> JObj(UserObj(id))
      [] kind = "people" -> JObj(PersonObj(id))

Defects(kind, id) ==
    CASE kind = "media" ->
           { JObj(o) : o \in MediaOptionalDefects(MediaObj(id))
                            \cup MediaEnumDefects(MediaObj(id))
                            \cup MediaTypeDefects(MediaObj(id)) }
      [] kind = "users" ->
           { JObj(o) : o \in UserOptionalDefects(UserObj(id))
                            \cup UserEnumDefects(UserObj(id))
                            \cup UserTypeDefects(UserObj(id)) }
      [] kind = "people" -> { JObj(o) : o \in PersonDefects(PersonObj(id)) }

\* The service holds the records of one kind, record i at position i, or is
\* unreachable ("down"), or answers with a body that is no JSON ("proxy").
Service(mode, kind, nodes) == [mode |-> mode, kind |-> kind, nodes |-> nodes]

Catalogue(kind) ==
    { [i \in 1..n |-> Node(kind, i)] : n \in 0..MaxPage }

\* the catalogue of n records in which the records at the positions D are
\* defective
SpoiledAt(kind, n, D) ==
    { [i \in 1..n |-> IF i \in D THEN bad[i] ELSE Node(kind, i)] :
        bad \in { b \in [D -> UNION {Defects(kind, i) : i \in D}] :
                    \A i \in D : b[i] \in Defects(kind, i) } }

\* catalogues in which between one and MaxDefects records are defective
Spoiled(kind) ==
    UNION { UNION { SpoiledAt(kind, n, D) :
                      D \in { D \in SUBSET (1..n) : Cardinality(D) \in 1..MaxDefects } } :
            n \in 1..MaxPage }

SoundServices ==
    { Service("down", "none", << >>), Service("proxy", "none", << >>) }
      \cup UNION { { Service("up", kind, c) : c \in Catalogue(kind) } : kind \in {"media", "users", "people"} }

SpoiledServices ==
    UNION { { Service("up", kind, c) : c \in Spoiled(kind) } : kind \in {"media", "users", "people"} }

\* An edge of a raw characters document and of a raw relations document,
\* well formed; tag is the value at node.type.
CharacterEdge(id, role) ==
    JObj([node |-> JObj(PersonObj(id)), role |-> JStr(role)])

RelationEdge(id, tag) ==
    JObj([node |-> JObj(With(MediaObj(id), "type", tag)), id |-> JInt(id),
          relationType |-> JStr("SEQUEL"), isMainStudio |-> JBool(FALSE)])

\* the edges of a characters document: two well formed, then an edge that
\* is no object, one without node, one whose node does not decode, one
\* without role and one whose role is null
CharacterEdges ==
    { CharacterEdge(1, "MAIN"), CharacterEdge(2, "SUPPORTING"),
      JInt(0),
      JObj([role |-> JStr("MAIN")]),
      JObj([node |-> JObj(Without(PersonObj(1), "id")), role |-> JStr("MAIN")]),
      JObj([node |-> JObj(PersonObj(1))]),
      JObj([node |-> JObj(PersonObj(1)), role |-> JNull]) }

\* the edges of a relations document: the tags ANIME, MANGA, another
\* string, no string and no tag; a score beyond eight bits; then an edge
\* that is no object, one without node and one whose node lacks the title
RelationEdges ==
    { RelationEdge(1, JStr("ANIME")), RelationEdge(2, JStr("MANGA")),
      RelationEdge(1, JStr("NOVEL")), RelationEdge(1, JInt(0)),
      JObj([node |-> JObj(MediaObj(1)), id |-> JInt(1),
            relationType |-> JStr("SEQUEL"), isMainStudio |-> JBool(FALSE)]),
      JObj([node |-> JObj(With(With(MediaObj(1), "type", JStr("ANIME")),
                               "averageScore", JInt(300))),
            id |-> JInt(1),
            relationType |-> JStr("SEQUEL"), isMainStudio |-> JBool(FALSE)]),
      JInt(0),
      JObj([id |-> JInt(1), relationType |-> JStr("SEQUEL"),
            isMainStudio |-> JBool(FALSE)]),
      JObj([node |-> JObj(Without(With(MediaObj(1), "type", JStr("MANGA")),
                                  "title")),
            id |-> JInt(1),
            relationType |-> JStr("SEQUEL"), isMainStudio |-> JBool(FALSE)]) }

\* the raw documents over the edges E: up to MaxEdges edges, and the
\* documents with no edges array
EdgeDocs(E) ==
    { JObj([edges |-> JArr(a)]) : a \in UNION { [1..n -> E] : n \in 0..MaxEdges } }
      \cup { JNull, JObj(<< >>), JObj([edges |-> JNull]) }

\* the services that hold one media record, with a raw characters document
\* or a raw relations document of any of these
EdgeServices ==
    { Service("up", "media", << JObj(With(MediaObj(1), "characters", d)) >>) :
        d \in EdgeDocs(CharacterEdges) }
      \cup
    { Service("up", "media", << JObj(With(MediaObj(1), "relations", d)) >>) :
        d \in EdgeDocs(RelationEdges) }

\* what the service answers to a get of record n and to a search; a service
\* that refuses the caller answers every request with the errors envelope
GetAnswer(w, kind, key, n) ==
    IF w.mode = "down" THEN NetFail("connect")
    ELSE IF w.mode = "proxy" THEN NetText("<html>502</html>")
    ELSE IF w.mode = "refusing" THEN NetJson(ErrorEnvelope)
    ELSE IF w.kind = kind /\ n \in DOMAIN w.nodes
         THEN NetJson(GetEnvelope(key, w.nodes[n]))
    ELSE NetJson(ErrorEnvelope)

SearchAnswer(w, kind, key) ==
    IF w.mode = "down" THEN NetFail("connect")
    ELSE IF w.mode = "proxy" THEN NetText("<html>502</html>")
    ELSE IF w.mode = "refusing" THEN NetJson(ErrorEnvelope)
    ELSE NetJson(SearchEnvelope(key, IF w.kind = kind THEN w.nodes ELSE << >>))

-----------------------------------------------------------------------------
(* The caller: a client value, built and rebuilt by the constructors and   *)
(* builders, and the last call with what it returned.                      *)

Tokens == {"tokA", "tokB"}
Durations == {60}
\* the durations of the configuration calls: none, the 30 s and 60 s of
\* the crate's tests
Seconds == {0, 30} \cup Durations
Names == {"andrielfr"}
Terms == {"bebop"}

Call(op, ty, self, arg, net, out) ==
    [op |-> op, ty |-> ty, self |-> self, arg |-> arg, net |-> net, out |-> out]

NoCall ==
    Call("none", "none", ClientDefault, 0, NetFail("none"), Panic("none", << >>))

\* The caller's tasks.  A task that called an operation is suspended at
\* body.send().await with its request sent ("sent") until the answer
\* arrives and the call returns ("done").
Tasks == {"t1", "t2"}

Idle ==
    [st |-> "idle", op |-> "none", self |-> ClientDefault, arg |-> 0,
     req |-> << >>, net |-> NetFail("none"), out |-> Panic("none", << >>)]

GetOps == {"get_anime", "get_manga", "get_character", "get_person",
           "get_user", "get_user_by_name"}
SearchOps == {"search_anime", "search_manga", "search_user"}

\* the records the last call handed to the caller
Returned ==
    IF last.out.st # "ok" THEN {}
    ELSE IF last.op \in GetOps \cup {"load_full"} THEN {last.out.v}
    ELSE IF last.op \in SearchOps /\ last.out.v.some
         THEN {last.out.v.v[i] : i \in DOMAIN last.out.v.v}
    ELSE {}

Init ==
    /\ client = ClientDefault
    /\ wire \in SoundServices
    /\ last = NoCall
    /\ flights = [t \in Tasks |-> Idle]

InitWire ==
    /\ client = ClientDefault
    /\ wire \in SpoiledServices
    /\ last = NoCall
    /\ flights = [t \in Tasks |-> Idle]

\* Client::with_timeout(d), Client::with_token(t)
with_timeout(duration) == Client(None, duration)
with_token(token_) == Client(Some(token_), DefaultTimeout)
\* client.timeout(d), client.token(t)
timeout(self, duration) == [self EXCEPT !.timeout = duration]
\* a token builder that starts from a fresh client
token_fresh(self, token_) == with_token(token_)
token(self, token_) == [self EXCEPT !.api_token = Some(token_)]
\* derive(Clone) on Client: a field-by-field copy
clone(self) == Client(self.api_token, self.timeout)

NewDefault == client' = ClientDefault /\ UNCHANGED <<wire, last, flights>>

WithTimeout ==
    \E d \in Durations : client' = with_timeout(d) /\ UNCHANGED <<wire, last, flights>>

WithToken ==
    \E t \in Tokens : client' = with_token(t) /\ UNCHANGED <<wire, last, flights>>

SetTimeout ==
    \E d \in Durations : client' = timeout(client, d) /\ UNCHANGED <<wire, last, flights>>

SetToken ==
    \E t \in Tokens : client' = token(client, t) /\ UNCHANGED <<wire, last, flights>>

\* the service becomes unreachable, or a proxy answers in its place
Outage ==
    /\ wire.mode = "up"
    /\ \E mode \in {"down", "proxy"} : wire' = [wire EXCEPT !.mode = mode]
    /\ UNCHANGED <<client, last, flights>>

GetAnime ==
    \E id \in Ids :
        LET net == GetAnswer(wire, "media", "Media", id)
        IN  /\ last' = Call("get_anime", "Anime", client, id, net,
                            get_anime(client, id, net))
            /\ UNCHANGED <<client, wire, flights>>

GetManga ==
    \E id \in Ids :
        LET net == GetAnswer(wire, "media", "Media", id)
        IN  /\ last' = Call("get_manga", "Manga", client, id, net,
                            get_manga(client, id, net))
            /\ UNCHANGED <<client, wire, flights>>

GetCharacter ==
    \E id \in Ids :
        LET net == GetAnswer(wire, "people", "Character", id)
        IN  /\ last' = Call("get_character", "Character", client, id, net,
                            get_character(client, id, net))
            /\ UNCHANGED <<client, wire, flights>>

GetPerson ==
    \E id \in Ids :
        LET net == GetAnswer(wire, "people", "Staff", id)
        IN  /\ last' = Call("get_person", "Person", client, id, net,
                            get_person(client, id, net))
            /\ UNCHANGED <<client, wire, flights>>

GetUser ==
    \E id \in Ids :
        LET net == GetAnswer(wire, "users", "User", id)
        IN  /\ last' = Call("get_user", "User", client, id, net,
                            get_user(client, id, net))
            /\ UNCHANGED <<client, wire, flights>>

GetUserByName ==
    \E name \in Names :
        LET net == GetAnswer(wire, "users", "User", 1)
        IN  /\ last' = Call("get_user_by_name", "User", client, name, net,
                            get_user_by_name(client, name, net))
            /\ UNCHANGED <<client, wire, flights>>

SearchAnime ==
    \E title \in Terms :
        LET net == SearchAnswer(wire, "media", "media")
        IN  /\ last' = Call("search_anime", "Anime", client, title, net,
                            search_anime(client, title, 1, MaxPage, net))
            /\ UNCHANGED <<client, wire, flights>>

SearchManga ==
    \E title \in Terms :
        LET net == SearchAnswer(wire, "media", "media")
        IN  /\ last' = Call("search_manga", "Manga", client, title, net,
                            search_manga(client, title, 1, MaxPage, net))
            /\ UNCHANGED <<client, wire, flights>>

SearchUser ==
    \E name \in Names :
        LET net == SearchAnswer(wire, "users", "users")
        IN  /\ last' = Call("search_user", "User", client, name, net,
                            search_user(client, name, 1, MaxPage, net))
            /\ UNCHANGED <<client, wire, flights>>

\* record.load_full() on a record the last call returned
LoadFull ==
    /\ last.ty \in {"Anime", "Manga", "User"}
    /\ \E self \in Returned :
          LET net == IF last.ty = "User"
                     THEN GetAnswer(wire, "users", "User", self.id)
                     ELSE GetAnswer(wire, "media", "Media", self.id)
          IN  last' = Call("load_full", last.ty, self.client, self, net,
                           load_full(last.ty, self, net))
    /\ UNCHANGED <<client, wire, flights>>

\* Client::get_query on any pair (the callers in client.rs pass the pairs
\* that have a document)
Resolve ==
    \E media_type \in MediaTypes, action \in Actions :
        /\ last' = Call("get_query", "none", client, <<media_type, action>>,
                        NetFail("none"), get_query(media_type, action))
        /\ UNCHANGED <<client, wire, flights>>

Calls ==
    \/ GetAnime \/ GetManga \/ GetCharacter \/ GetPerson
    \/ GetUser \/ GetUserByName
    \/ SearchAnime \/ SearchManga \/ SearchUser
    \/ LoadFull

Next ==
    \/ NewDefault \/ WithTimeout \/ WithToken \/ SetTimeout \/ SetToken
    \/ Outage \/ Calls \/ Resolve

Spec == Init /\ [][Next]_vars

\* the calls of one client against a service with defective records
SpecWire == InitWire /\ [][Calls]_vars

-----------------------------------------------------------------------------
(* Concurrent calls.  The operations take &self and are async: a call runs *)
(* to body.send().await, and returns when the answer to its own request    *)
(* has arrived.  Calls of several tasks on one client, or on clones of it, *)
(* interleave at these points, and the builders may rebuild the caller's   *)
(* client while clones of it are in use.                                   *)

\* client.<op>(arg) answered by net (a search asks for page 1)
Invoke(op, self, arg, net) ==
    CASE op = "get_anime" -> get_anime(self, arg, net)
      [] op = "get_manga" -> get_manga(self, arg, net)
      [] op = "get_character" -> get_character(self, arg, net)
      [] op = "get_person" -> get_person(self, arg, net)
      [] op = "get_user" -> get_user(self, arg, net)
      [] op = "get_user_by_name" -> get_user_by_name(self, arg, net)
      [] op = "search_anime" -> search_anime(self, arg, 1, MaxPage, net)
      [] op = "search_manga" -> search_manga(self, arg, 1, MaxPage, net)
      [] op = "search_user" -> search_user(self, arg, 1, MaxPage, net)

\* what the service answers to a request: it sees the document and the
\* variables, and nothing of the caller
Answer(w, req) ==
    CASE req.body.query \in {"get_anime.graphql", "get_manga.graphql"} ->
           GetAnswer(w, "media", "Media", req.body.variables.id)
      [] req.body.query = "get_character.graphql" ->
           GetAnswer(w, "people", "Character", req.body.variables.id)
      [] req.body.query = "get_person.graphql" ->
           GetAnswer(w, "people", "Staff", req.body.variables.id)
      [] req.body.query = "get_user.graphql" ->
           GetAnswer(w, "users", "User",
                     IF "id" \in DOMAIN req.body.variables
                     THEN req.body.variables.id ELSE 1)
      [] req.body.query \in {"search_anime.graphql", "search_manga.graphql"} ->
           SearchAnswer(w, "media", "media")
      [] req.body.query = "search_user.graphql" ->
           SearchAnswer(w, "users", "users")

\* a task calls an operation on a clone of the client: the call runs to the
\* await of the send; what it sent does not depend on the answer
Begin ==
    \E t \in Tasks, op \in GetOps \cup SearchOps :
        \E arg \in (IF op \in {"get_user_by_name", "search_user"} THEN Names
                     ELSE IF op \in SearchOps THEN Terms ELSE Ids) :
            /\ flights[t].st # "sent"
            /\ flights' = [flights EXCEPT ![t] =
                              [st |-> "sent", op |-> op, self |-> client,
                               arg |-> arg,
                               req |-> Invoke(op, client, arg,
                                              NetFail("pending")).sent,
                               net |-> NetFail("none"),
                               out |-> Panic("none", << >>)]]
            /\ UNCHANGED <<client, wire, last>>

\* calls that share one response slot: a call returns with the answer to
\* the request of another call in flight
Finish_crossed ==
    \E t \in Tasks :
        /\ flights[t].st = "sent"
        /\ flights[t].req # << >>
        /\ \E u \in Tasks :
              /\ flights[u].st = "sent"
              /\ flights[u].req # << >>
              /\ flights' = [flights EXCEPT
                                ![t].st = "done",
                                ![t].net = Answer(wire, flights[u].req[1]),
                                ![t].out = Invoke(flights[t].op, flights[t].self,
                                                  flights[t].arg,
                                                  Answer(wire, flights[u].req[1]))]
        /\ UNCHANGED <<client, wire, last>>

\* the answer to the request of a task arrives and its call returns
Finish ==
    \E t \in Tasks :
        /\ flights[t].st = "sent"
        /\ flights[t].req # << >>
        /\ flights' = [flights EXCEPT
                          ![t].st = "done",
                          ![t].net = Answer(wire, flights[t].req[1]),
                          ![t].out = Invoke(flights[t].op, flights[t].self,
                                            flights[t].arg,
                                            Answer(wire, flights[t].req[1]))]
        /\ UNCHANGED <<client, wire, last>>

InitAsync ==
    /\ client = ClientDefault
    /\ wire = Service("up", "media", [i \in 1..MaxPage |-> Node("media", i)])
    /\ last = NoCall
    /\ flights = [t \in Tasks |-> Idle]

NextAsync == Begin \/ Finish \/ NewDefault \/ SetTimeout \/ Outage

\* two tasks calling the operations of one client and of its clones
SpecAsync == InitAsync /\ [][NextAsync]_vars

-----------------------------------------------------------------------------
(* The accessors of a record the caller holds.                             *)

\* the records the caller holds: those the last call returned, and after an
\* accessor (which takes &self) the record it was called on
Held ==
    IF last.op \in {"characters", "relations"} THEN {last.arg} ELSE Returned

\* record.characters()
Characters ==
    /\ last.ty \in {"Anime", "Manga"}
    /\ \E self \in Held :
          last' = Call("characters", last.ty, self.client, self, last.net,
                       IF last.ty = "Anime" THEN Anime_characters(self)
                       ELSE Manga_characters(self))
    /\ UNCHANGED <<client, wire, flights>>

\* record.relations()
Relations ==
    /\ last.ty \in {"Anime", "Manga"}
    /\ \E self \in Held :
          last' = Call("relations", last.ty, self.client, self, last.net,
                       IF last.ty = "Anime" THEN Anime_relations(self)
                       ELSE Manga_relations(self))
    /\ UNCHANGED <<client, wire, flights>>

\* what the caller reads of a media: id(), title() and format()
Described(m) ==
    IF m.st # "ok" THEN m
    ELSE Okay([media |-> m.v, id |-> Media_id(m.v), title |-> Media_title(m.v),
               format |-> Media_format(m.v)], << >>)

\* relation.media() on a relation that relations() returned
RelationMedia ==
    /\ last.op = "relations"
    /\ last.out.st = "ok"
    /\ \E i \in DOMAIN last.out.v :
          last' = Call("media", "Relation", last.self, last.out.v[i], last.net,
                       Described(Relation_media(last.out.v[i])))
    /\ UNCHANGED <<client, wire, flights>>

InitEdges ==
    /\ client = ClientDefault
    /\ wire \in EdgeServices
    /\ last = NoCall
    /\ flights = [t \in Tasks |-> Idle]

NextEdges ==
    \/ GetAnime \/ GetManga \/ SearchAnime \/ SearchManga
    \/ Characters \/ Relations \/ RelationMedia

\* the accessors on the records fetched from a service whose raw
\* sub-documents are of every shape
SpecEdges == InitEdges /\ [][NextEdges]_vars

-----------------------------------------------------------------------------
(* The conversions of a text the caller or the wire holds.                 *)

\* the texts: the wire names in upper, lower and mixed case, padded and
\* not, and texts that are no name
Texts ==
    { p[1] : p \in Padded \cup Cased } \cup { p[2] : p \in Padded \cup Cased }
      \cup { "", "#FF5733" }

TextTypes == {"Color", "Format", "Season", "Source"}

\* T::from(value) of a &str and of a String, and hex() of the color, for
\* the text the caller holds
Convert ==
    /\ last.op = "text"
    /\ last' = [last EXCEPT
                  !.op = "from",
                  !.out = Okay([str |-> CASE last.ty = "Color" -> Color_from(last.arg)
                                          [] last.ty = "Format" -> Format_from(last.arg)
                                          [] last.ty = "Season" -> Season_from(last.arg)
                                          [] last.ty = "Source" -> Source_from(last.arg),
                                string |-> From_String(last.ty, last.arg),
                                hex |-> IF last.ty = "Color"
                                        THEN Color_hex(Color_from(last.arg))
                                        ELSE None],
                               << >>)]
    /\ UNCHANGED <<client, wire, flights>>

\* T::deserialize of the text as a wire string
Deserialize ==
    /\ last.op = "text"
    /\ last' = [last EXCEPT
                  !.op = "deserialize",
                  !.out = Okay(Decode(IF last.ty = "Color" THEN TColor
                                       ELSE TEnum(last.ty),
                                       JStr(last.arg)), << >>)]
    /\ UNCHANGED <<client, wire, flights>>

\* the types that emit a text for each of their variants
EmittingTypes == {"Language", "Format", "Season", "Source"}

\* the texts a type emits for a variant, each with the name of what emits
\* it: code() and the Display of a language, name() and the Display of a
\* format and of a season, the Display of a source
Emitted(ty, self) ==
    CASE ty = "Language" ->
           { <<"code", Language_code(self)>>, <<"display", Language_fmt(self)>> }
      [] ty = "Format" ->
           { <<"name", Format_name(self)>>, <<"display", Format_name(self)>> }
      [] ty = "Season" ->
           { <<"name", Season_name(self)>>, <<"display", Season_name(self)>> }
      [] ty = "Source" -> { <<"display", Source_fmt(self)>> }

\* each text the type of the variant emits for it, converted back with
\* T::from
RoundTrip ==
    /\ last.op = "variant"
    /\ last' = [last EXCEPT
                  !.op = "round_trip",
                  !.out = Okay({ [by |-> e[1], text |-> e[2],
                                  back |-> CASE last.ty = "Language" -> Language_from(e[2])
                                             [] last.ty = "Format" -> Format_from(e[2])
                                             [] last.ty = "Season" -> Season_from(e[2])
                                             [] last.ty = "Source" -> Source_from(e[2])] :
                                   e \in Emitted(last.ty, last.arg) }, << >>)]
    /\ UNCHANGED <<client, wire, flights>>

\* the caller holds a text to convert to one of the types, or a variant of
\* one of the types that emit a text
InitText ==
    /\ client = ClientDefault
    /\ wire = Service("down", "none", << >>)
    /\ last \in { Call("text", ty, ClientDefault, value, NetFail("none"),
                        Panic("none", << >>)) :
                     ty \in TextTypes, value \in Texts }
                  \cup
                UNION { { Call("variant", ty, ClientDefault, p[2], NetFail("none"),
                               Panic("none", << >>)) : p \in EnumWire(ty) } :
                           ty \in EmittingTypes }
    /\ flights = [t \in Tasks |-> Idle]

NextText == Convert \/ Deserialize \/ RoundTrip

\* the conversions applied to every text
SpecText == InitText /\ [][NextText]_vars

-----------------------------------------------------------------------------
(* Configuration: the caller builds and rebuilds its client with the       *)
(* constructors and builders of impl Client, each call recorded with the   *)
(* client it was made on, its argument and the client it returned.         *)

ConfigCalls ==
    {"default", "with_timeout", "with_token", "timeout", "token", "clone"}

Configured(call, self, duration, token_) ==
    CASE call = "default" -> ClientDefault
      [] call = "with_timeout" -> with_timeout(duration)
      [] call = "with_token" -> with_token(token_)
      [] call = "timeout" -> timeout(self, duration)
      [] call = "token" -> token(self, token_)
      [] call = "clone" -> clone(self)

Configure ==
    /\ \E call \in ConfigCalls, d \in Seconds, t \in Tokens :
          /\ client' = Configured(call, client, d, t)
          /\ last' = Call(call, "Client", client,
                          IF call \in {"with_timeout", "timeout"} THEN d
                          ELSE IF call \in {"with_token", "token"} THEN t
                          ELSE 0,
                          NetFail("none"),
                          Okay(Configured(call, client, d, t), << >>))
    /\ UNCHANGED <<wire, flights>>

InitConfig ==
    /\ client = ClientDefault
    /\ wire = Service("up", "media", [i \in 1..MaxPage |-> Node("media", i)])
    /\ last = NoCall
    /\ flights = [t \in Tasks |-> Idle]

NextConfig == Configure

SpecConfig == InitConfig /\ [][NextConfig]_vars

-----------------------------------------------------------------------------
(* Properties.                                                             *)

ClientCalls == GetOps \cup SearchOps

\* the object key under data of a get answer, under data.Page of a search
GetKey(ty) ==
    CASE ty \in {"Anime", "Manga"} -> "Media"
      [] ty = "User" -> "User"
      [] ty = "Character" -> "Character"
      [] ty = "Person" -> "Staff"

SearchKey(ty) == IF ty = "User" THEN "users" ELSE "media"

GetDocument(ty) ==
    CASE ty = "Anime" -> "get_anime.graphql"
      [] ty = "Manga" -> "get_manga.graphql"
      [] ty = "User" -> "get_user.graphql"

\* the nodes the last call received: the subtree a get decodes, the elements
\* of the array a search walks
Received ==
    IF last.net.t # "text" \/ ~last.net.json THEN {}
    ELSE LET data == Index(last.net.doc, "data")
         IN  IF last.op \in SearchOps
             THEN LET a == as_array(Index(Index(data, "Page"), SearchKey(last.ty)))
                  IN  IF a.some THEN {a.v[i] : i \in DOMAIN a.v} ELSE {}
             ELSE IF last.op \in GetOps \cup {"load_full"}
             THEN {Index(data, GetKey(last.ty))}
             ELSE {}

\* the record fields that come from the wire
WireFields(r) == DOMAIN r \ {"client", "is_full_loaded"}

\* C1: load_full on a record whose flag is false sends exactly one request,
\* the get document of the record's own kind with variable id = the record's
\* id, and what it returns Ok is the record decoded from the answer;
\* load_full on a record whose flag is true panics and sends nothing.
C1_LoadFull ==
    last.op = "load_full" =>
        IF last.arg.is_full_loaded
        THEN last.out.st = "panic" /\ last.out.sent = << >>
        ELSE /\ Len(last.out.sent) = 1
             /\ last.out.sent[1].body =
                    [query |-> GetDocument(last.ty),
                     variables |-> [id |-> last.arg.id]]
             /\ last.out.st = "ok" =>
                    \E n \in Received :
                        LET d == DecodeStruct(last.ty, n)
                        IN  /\ d.ok
                            /\ \A f \in WireFields(d.v) : last.out.v[f] = d.v[f]
             /\ (last.net.t = "text" /\ last.net.json) =>
                    (last.out.st = "ok" <=>
                        \E n \in Received : DecodeStruct(last.ty, n).ok)

\* a partial record from a search was loaded and the loaded record returned
C1_Witness ==
    /\ last.op = "load_full"
    /\ ~last.arg.is_full_loaded
    /\ last.out.st = "ok"
    /\ last.out.v.id = last.arg.id
    /\ last.ty = "Anime"

\* C2: the record a successful load_full returns is fully loaded, so that a
\* load_full on it panics and sends no request.
C2_ReloadedIsFull ==
    (last.op = "load_full" /\ last.out.st = "ok") =>
        /\ last.out.v.is_full_loaded
        /\ load_full(last.ty, last.out.v, last.net).st = "panic"
        /\ load_full(last.ty, last.out.v, last.net).sent = << >>

\* C3: a record a get operation returned has is_full_loaded = TRUE and a
\* record a search operation returned has is_full_loaded = FALSE.
C3_ProvenanceFlag ==
    \A r \in Returned :
        /\ last.op \in GetOps => r.is_full_loaded
        /\ last.op \in SearchOps => ~r.is_full_loaded

\* C4: a record returned by a get, a search or load_full carries the client
\* that issued the operation (for load_full: the client of the record it
\* was called on), and the request of a load_full bears that client's
\* credential and timeout.
C4_CarriesClient ==
    last.op \in ClientCalls \cup {"load_full"} =>
        /\ \A r \in Returned : r.client = last.self
        /\ \A i \in DOMAIN last.out.sent :
              /\ last.out.sent[i].timeout = last.self.timeout
              /\ last.out.sent[i].authorization.some = last.self.api_token.some

\* the pairs with no bundled document
Unsupported ==
    { <<"Studio", "Get">>, <<"Character", "Search">>, <<"Person", "Search">>,
      <<"Studio", "Search">>, <<"Unknown", "Get">>, <<"Unknown", "Search">> }

\* C5: get_query on a pair with no bundled document returns an error value.
C5_UnsupportedIsError ==
    (last.op = "get_query" /\ last.arg \in Unsupported) => last.out.st = "err"

\* C6: a client operation whose HTTP call failed returns an error value that
\* carries the cause.
C6_TransportFailureIsError ==
    (last.op \in ClientCalls /\ last.net.t = "fail") =>
        /\ last.out.st = "err"
        /\ last.out.e.msg.at = last.net.cause

\* C7: a call whose request was answered by a body that is no JSON returns
\* an error value, and not the error of a transport failure.
C7_InvalidJsonIsError ==
    (/\ last.op \in ClientCalls \cup {"load_full"}
     /\ last.out.sent # << >>
     /\ last.net.t = "text" /\ ~last.net.json) =>
        /\ last.out.st = "err"
        /\ last.out.e.msg.kind # "reqwest"

\* a node whose id is missing or no integer
NoId(n) == ~as_i64(Index(n, "id")).some

\* C8: a get or search that received a subtree with no integer id returns an
\* error value.
C8_UndecodableIsError ==
    (last.op \in ClientCalls /\ \E n \in Received : NoId(n)) =>
        last.out.st = "err"

\* the nodes of a kind that are well formed but for optional or free-text
\* fields that are absent or null
Lenient(kind) ==
    CASE kind = "media" ->
           UNION { {Node(kind, i)} \cup
                   {JObj(o) : o \in MediaOptionalDefects(MediaObj(i))} : i \in Ids }
      [] kind = "users" ->
           UNION { {Node(kind, i)} \cup
                   {JObj(o) : o \in UserOptionalDefects(UserObj(i))} : i \in Ids }
      [] kind = "people" -> { Node(kind, i) : i \in Ids }

\* the nodes of a kind that are well formed but for an enum field that holds
\* a string that is no wire name
Unrecognised(kind) ==
    CASE kind = "media" ->
           UNION { {JObj(o) : o \in MediaEnumDefects(MediaObj(i))} : i \in Ids }
      [] kind = "users" ->
           UNION { {JObj(o) : o \in UserEnumDefects(UserObj(i))} : i \in Ids }
      [] kind = "people" -> {}

KindOf(ty) ==
    CASE ty \in {"Anime", "Manga"} -> "media"
      [] ty = "User" -> "users"
      [] ty \in {"Character", "Person"} -> "people"

\* C9: a get or search whose answer is well formed but for optional or
\* free-text fields that are absent or null returns Ok.
C9_AbsentOptionalIsUnset ==
    (/\ last.op \in ClientCalls
     /\ Received # {}
     /\ Received \subseteq Lenient(KindOf(last.ty))) =>
        last.out.st = "ok"

\* C10: a get or search whose answer is well formed but for enum fields
\* that hold an unrecognised string returns Ok, and an unrecognised format
\* or status is decoded to the default variant.
C10_UnknownEnumIsDefault ==
    (/\ last.op \in ClientCalls
     /\ Received # {}
     /\ Received \subseteq Unrecognised(KindOf(last.ty))) =>
        /\ last.out.st = "ok"
        /\ \A r \in Returned :
              last.ty \in {"Anime", "Manga"} =>
                 \E n \in Received :
                    /\ Index(n, "format") = JStr("TV_SPECIAL")
                          => r.format = EnumDefault("Format")
                    /\ Index(n, "status") = JStr("ON_BREAK")
                          => r.status = EnumDefault("Status")

\* C11: every request a call sent bears the Authorization header
\* "Bearer <token>" with the token of the client that issued the call when
\* that client has a token, and no Authorization header when it has none.
C11_BearerHeader ==
    \A i \in DOMAIN last.out.sent :
        last.out.sent[i].authorization =
            IF last.self.api_token.some
            THEN Some(<<"Bearer", last.self.api_token.v>>)
            ELSE None

\* a client whose token was replaced by token("tokB") sent a request
C11_Witness ==
    /\ last.op \in ClientCalls
    /\ last.self.api_token = Some("tokB")
    /\ Len(last.out.sent) = 1
    /\ last.out.sent[1].authorization = Some(<<"Bearer", "tokB">>)

\* C12: a get or search sent exactly one request, whether it returned Ok,
\* returned an error or panicked.
C12_OneRequest ==
    last.op \in ClientCalls => Len(last.out.sent) = 1

\* a get whose send failed returned its error after one request
C12_Witness ==
    /\ last.op \in GetOps
    /\ last.net.t = "fail"
    /\ last.out.st = "err"
    /\ Len(last.out.sent) = 1

\* the document and the variables of the request of an operation
DocumentOf(op) ==
    CASE op = "get_anime" -> "get_anime.graphql"
      [] op = "get_manga" -> "get_manga.graphql"
      [] op = "get_character" -> "get_character.graphql"
      [] op = "get_person" -> "get_person.graphql"
      [] op \in {"get_user", "get_user_by_name"} -> "get_user.graphql"
      [] op = "search_anime" -> "search_anime.graphql"
      [] op = "search_manga" -> "search_manga.graphql"
      [] op = "search_user" -> "search_user.graphql"

VariablesOf(op, arg) ==
    IF op \in SearchOps THEN [search |-> arg, page |-> 1, per_page |-> MaxPage]
    ELSE IF op = "get_user_by_name" THEN [name |-> arg]
    ELSE [id |-> arg]

\* a step of the call of task t: the call begins and has sent one request,
\* built from its own argument and from the token and timeout of the client
\* it was called on; or the call returns, with what the operation makes of
\* the answer to its own request; the other tasks and the caller's client
\* are as before
StepOf(t) ==
    /\ client' = client
    /\ \A u \in Tasks \ {t} : flights'[u] = flights[u]
    /\ flights'[t].st = "sent" =>
          /\ flights'[t].self = client
          /\ Len(flights'[t].req) = 1
          /\ flights'[t].req[1].body =
                 [query |-> DocumentOf(flights'[t].op),
                  variables |-> VariablesOf(flights'[t].op, flights'[t].arg)]
          /\ flights'[t].req[1].timeout = flights'[t].self.timeout
          /\ flights'[t].req[1].authorization.some =
                 flights'[t].self.api_token.some
    /\ flights'[t].st = "done" =>
          /\ flights[t].st = "sent"
          /\ \A f \in {"op", "self", "arg", "req"} :
                flights'[t][f] = flights[t][f]
          /\ flights'[t].out.sent = flights[t].req
          /\ flights'[t].out =
                 Invoke(flights[t].op, flights[t].self, flights[t].arg,
                        Answer(wire, flights[t].req[1]))

\* C13: in every interleaving of the calls of two tasks on one client and
\* on clones of it, with the client rebuilt and the service failing in
\* between, each call sends one request built from its own argument and
\* its client's configuration, returns what the operation makes of the
\* answer to its own request, and leaves the other call and the client's
\* token and timeout as they were.
C13_Isolation ==
    [][\A t \in Tasks : flights'[t] # flights[t] => StepOf(t)]_vars

\* two calls of get_anime with different ids and different timeouts were in
\* flight together; the first returned its own record while the second waited
C13_Witness ==
    /\ flights["t1"].st = "done" /\ flights["t2"].st = "sent"
    /\ flights["t1"].op = "get_anime" /\ flights["t2"].op = "get_anime"
    /\ flights["t1"].arg # flights["t2"].arg
    /\ flights["t1"].self # flights["t2"].self
    /\ flights["t1"].out.st = "ok"
    /\ flights["t1"].out.v.id = flights["t1"].arg
    /\ flights["t1"].out.v.client = flights["t1"].self
    /\ client # flights["t1"].self

\* the raw sub-document the last accessor call read, and its edges
RawDoc ==
    IF last.op = "characters" THEN last.arg.characters ELSE last.arg.relations

EdgesOf(doc) ==
    IF doc.k = "obj" /\ "edges" \in DOMAIN doc.o /\ doc.o["edges"].k = "arr"
    THEN doc.o["edges"].a ELSE << >>

\* an edge that is an object with a node that decodes (for relations: an
\* edge that decodes as a Relation)
WellFormedEdge(op, e) ==
    /\ e.k = "obj"
    /\ "node" \in DOMAIN e.o
    /\ IF op = "characters" THEN DecodeStruct("Character", e.o["node"]).ok
       ELSE DecodeStruct("Relation", e).ok

\* C14: characters() and relations(), on Anime and on Manga, called on a
\* record whose raw document is an object with no edges key or with an
\* edges array, return a list, and the list has one entry for each
\* well-formed edge: malformed edges are skipped.
C14_MalformedIsSkipped ==
    (/\ last.op \in {"characters", "relations"}
     /\ RawDoc.k = "obj"
     /\ "edges" \in DOMAIN RawDoc.o => RawDoc.o["edges"].k = "arr") =>
        /\ last.out.st = "ok"
        /\ Len(last.out.v) =
              Cardinality({ i \in DOMAIN EdgesOf(RawDoc) :
                              WellFormedEdge(last.op, EdgesOf(RawDoc)[i]) })

\* C15: characters() on a document {edges: [e1..en]} whose edges each hold
\* a node that decodes, and a role string or no role, returns n records in
\* edge order, the i-th with the id of ei.node and with role Some(ei.role),
\* or with role None when ei has no role.
C15_CharactersInEdgeOrder ==
    (/\ last.op = "characters"
     /\ RawDoc.k = "obj"
     /\ "edges" \in DOMAIN RawDoc.o
     /\ RawDoc.o["edges"].k = "arr"
     /\ \A i \in DOMAIN EdgesOf(RawDoc) :
           /\ WellFormedEdge("characters", EdgesOf(RawDoc)[i])
           /\ "role" \in DOMAIN EdgesOf(RawDoc)[i].o =>
                  EdgesOf(RawDoc)[i].o["role"].k = "str") =>
        /\ last.out.st = "ok"
        /\ Len(last.out.v) = Len(EdgesOf(RawDoc))
        /\ \A i \in DOMAIN EdgesOf(RawDoc) :
              /\ last.out.v[i].id = EdgesOf(RawDoc)[i].o["node"].o["id"].n
              /\ last.out.v[i].role =
                    IF "role" \in DOMAIN EdgesOf(RawDoc)[i].o
                    THEN Some(EdgesOf(RawDoc)[i].o["role"].s) ELSE None

\* the wire type tag of the node of the relation media() was called on
Tag == as_str(Index(last.arg.node, "type"))

Recognised(names, text) ==
    { p[2] : p \in { q \in names : q[1] = to_uppercase(text) } }

RecognisedTrimmed(names, text) == Recognised(names, trim(text))

\* C17: a text converted to Color, by the decode of a wire string and by
\* Color::from, is the named variant whose name is the trimmed text, case
\* ignored, and Hex carrying the text when there is no such name; hex() is
\* the text for Hex and None for a named variant.
C17_ColorFromText ==
    (last.ty = "Color" /\ last.op \in {"from", "deserialize"}) =>
        /\ last.op = "deserialize" =>
              /\ last.out.v.ok
              /\ last.out.v.v =
                    IF RecognisedTrimmed(ColorWire, last.arg) # {}
                    THEN ColorNamed(CHOOSE c \in RecognisedTrimmed(ColorWire, last.arg) : TRUE)
                    ELSE ColorHex(last.arg)
        /\ last.op = "from" =>
              /\ last.out.v.str =
                    IF RecognisedTrimmed(ColorWire, last.arg) # {}
                    THEN ColorNamed(CHOOSE c \in RecognisedTrimmed(ColorWire, last.arg) : TRUE)
                    ELSE ColorHex(last.arg)
              /\ last.out.v.string = last.out.v.str
              /\ last.out.v.hex =
                    IF RecognisedTrimmed(ColorWire, last.arg) # {}
                    THEN None ELSE Some(last.arg)

\* C20 as stated: Format::from, Season::from and Source::from give the
\* variant whose wire name is the text, case ignored, and the default
\* variant for every other text; the String form gives the same.
C20_FromTextUntrimmed ==
    (last.op = "from" /\ last.ty \in {"Format", "Season", "Source"}) =>
        /\ last.out.v.str =
              IF Recognised(EnumWire(last.ty), last.arg) # {}
              THEN CHOOSE v \in Recognised(EnumWire(last.ty), last.arg) : TRUE
              ELSE EnumDefault(last.ty)
        /\ last.out.v.string = last.out.v.str

\* C20 amended: Format::from and Season::from give the variant whose wire
\* name is the text with leading and trailing whitespace trimmed, case
\* ignored, and Source::from the variant whose wire name is the text as it
\* is, case ignored; each gives its default variant (Tv, Winter, Other) for
\* every other text; the String form gives the same.
C20_FromText ==
    (last.op = "from" /\ last.ty \in {"Format", "Season", "Source"}) =>
        /\ last.ty \in {"Format", "Season"} =>
              last.out.v.str =
                 IF RecognisedTrimmed(EnumWire(last.ty), last.arg) # {}
                 THEN CHOOSE v \in RecognisedTrimmed(EnumWire(last.ty), last.arg) : TRUE
                 ELSE EnumDefault(last.ty)
        /\ last.ty = "Source" =>
              last.out.v.str =
                 IF Recognised(EnumWire("Source"), last.arg) # {}
                 THEN CHOOSE v \in Recognised(EnumWire("Source"), last.arg) : TRUE
                 ELSE "Other"
        /\ last.out.v.string = last.out.v.str

\* Format::from(" one_shot ") gave OneShot
C20_Witness ==
    /\ last.op = "from"
    /\ last.ty = "Format"
    /\ last.arg = " one_shot "
    /\ last.out.v.str = "OneShot"
    /\ last.out.v.string = "OneShot"

\* C19: after a constructor or builder call the client is configured as
\* the call says: default and with_token give the timeout of 20 s, default
\* and with_timeout give no token, with_timeout(d) and timeout(d) give the
\* timeout d, with_token(t) and token(t) give the token t, timeout(d)
\* keeps the token and token(t) keeps the timeout of the client they were
\* called on, and a clone equals its original.
C19_Configuration ==
    last.op \in ConfigCalls =>
        /\ last.out = Okay(client, << >>)
        /\ last.op \in {"default", "with_token"} => client.timeout = 20
        /\ last.op \in {"default", "with_timeout"} => client.api_token = None
        /\ last.op \in {"with_timeout", "timeout"} => client.timeout = last.arg
        /\ last.op \in {"with_token", "token"} =>
               client.api_token = Some(last.arg)
        /\ last.op = "timeout" => client.api_token = last.self.api_token
        /\ last.op = "token" => client.timeout = last.self.timeout
        /\ last.op = "clone" => client = last.self

\* token("tokB") was called on a client holding "tokA" and a timeout of
\* 60 s
C19_Witness ==
    /\ last.op = "token"
    /\ last.arg = "tokB"
    /\ last.self = Client(Some("tokA"), 60)
    /\ client = Client(Some("tokB"), 60)

-----------------------------------------------------------------------------
(* The value types: the accessors of Cover, Image, Title and Date applied  *)
(* to a value the caller holds.                                            *)

\* a largest() that prefers the large image to the extra large one
Cover_largest_large(self) ==
    IF self.large.some THEN Some(self.large.v)
    ELSE IF self.extra_large.some THEN Some(self.extra_large.v)
    ELSE IF self.medium.some THEN Some(self.medium.v)
    ELSE None

\* Cover::largest
Cover_largest(self) ==
    IF self.extra_large.some THEN Some(self.extra_large.v)
    ELSE IF self.large.some THEN Some(self.large.v)
    ELSE IF self.medium.some THEN Some(self.medium.v)
    ELSE None

\* Image::largest
Image_largest(self) == IF self.large = "" THEN self.medium ELSE self.large

\* the covers and images: every size present or absent (empty, for an
\* image); a present size may be the empty text
Covers ==
    { [extra_large |-> a, large |-> b, medium |-> c, color |-> None] :
        a \in {None, Some("xl.png")}, b \in {None, Some("l.png"), Some("")},
        c \in {None, Some("m.png")} }

Images ==
    { [large |-> a, medium |-> b] : a \in {"", "l.png"}, b \in {"", "m.png"} }

-----------------------------------------------------------------------------
(* Date.  A text is the sequence of its characters, so that str::replace   *)
(* and the formatting of a number act on it as they do in the code.        *)

Digit(d) == <<"0", "1", "2", "3", "4", "5", "6", "7", "8", "9">>[d + 1]

RECURSIVE Digits(_)
Digits(n) == IF n < 10 THEN <<Digit(n)>> ELSE Digits(n \div 10) \o <<Digit(n % 10)>>

\* i32::to_string, u32::to_string
to_string(n) == IF n < 0 THEN <<"-">> \o Digits(-n) ELSE Digits(n)

\* format!("{:02}", n): the sign counts in the width
format_02(n) ==
    IF n < 0 THEN (IF -n < 10 THEN <<"-">> \o Digits(-n) ELSE to_string(n))
    ELSE IF n < 10 THEN <<"0">> \o Digits(n)
    ELSE Digits(n)

\* a % b of signed integers: the remainder has the sign of a
rem(a, b) == IF a < 0 THEN -((-a) % b) ELSE a % b

\* str::replace: every match of from, found left to right without overlap
RECURSIVE replace(_, _, _)
replace(s, from, to) ==
    IF Len(s) < Len(from) THEN s
    ELSE IF SubSeq(s, 1, Len(from)) = from
         THEN to \o replace(SubSeq(s, Len(from) + 1, Len(s)), from, to)
    ELSE <<s[1]>> \o replace(Tail(s), from, to)

\* formatted = formatted.replace(..) for each pair of subs in turn
RECURSIVE Replaced(_, _)
Replaced(formatted, subs) ==
    IF subs = << >> THEN formatted
    ELSE Replaced(replace(formatted, subs[1][1], subs[1][2]), Tail(subs))

\* the replacements of Date::format for a year, a month, a day
YearSubs(ys, y2) ==
    << <<<<"{", "y", "e", "a", "r", "}">>, ys>>,
       <<<<"{", "y", "y", "y", "y", "}">>, ys>>,
       <<<<"{", "y", "y", "}">>, y2>>,
       <<<<"{", "y", "}">>, ys>>,
       <<<<"{", "Y", "E", "A", "R", "}">>, ys>>,
       <<<<"{", "Y", "Y", "Y", "Y", "}">>, ys>>,
       <<<<"{", "Y", "Y", "}">>, y2>>,
       <<<<"{", "Y", "}">>, ys>> >>

MonthSubs(ms, m2) ==
    << <<<<"{", "m", "o", "n", "t", "h", "}">>, m2>>,
       <<<<"{", "m", "o", "n", "}">>, m2>>,
       <<<<"{", "m", "m", "}">>, m2>>,
       <<<<"{", "m", "}">>, ms>>,
       <<<<"{", "M", "O", "N", "T", "H", "}">>, m2>>,
       <<<<"{", "M", "O", "N", "}">>, m2>>,
       <<<<"{", "M", "M", "}">>, m2>>,
       <<<<"{", "M", "}">>, ms>> >>

DaySubs(ds, d2) ==
    << <<<<"{", "d", "a", "y", "}">>, d2>>,
       <<<<"{", "d", "d", "}">>, d2>>,
       <<<<"{", "d", "}">>, ds>>,
       <<<<"{", "D", "A", "Y", "}">>, d2>>,
       <<<<"{", "D", "D", "}">>, d2>>,
       <<<<"{", "D", "}">>, ds>> >>

\* a format that leaves the month and the day as they are
Date_format_unpadded(self, format) ==
    Replaced(format,
        (IF self.year.some
         THEN YearSubs(to_string(self.year.v), format_02(rem(self.year.v, 100)))
         ELSE << >>)
        \o (IF self.month.some
            THEN MonthSubs(to_string(self.month.v), to_string(self.month.v))
            ELSE << >>)
        \o (IF self.day.some
            THEN DaySubs(to_string(self.day.v), to_string(self.day.v))
            ELSE << >>))

\* Date::format
Date_format(self, format) ==
    Replaced(format,
        (IF self.year.some
         THEN YearSubs(to_string(self.year.v), format_02(rem(self.year.v, 100)))
         ELSE << >>)
        \o (IF self.month.some
            THEN MonthSubs(to_string(self.month.v), format_02(self.month.v))
            ELSE << >>)
        \o (IF self.day.some
            THEN DaySubs(to_string(self.day.v), format_02(self.day.v))
            ELSE << >>))

\* Date::as_string
Date_as_string(self) ==
    (IF self.year.some THEN to_string(self.year.v) ELSE << >>) \o <<"-">>
    \o (IF self.month.some THEN format_02(self.month.v) ELSE << >>) \o <<"-">>
    \o (IF self.day.some THEN format_02(self.day.v) ELSE << >>)

\* Date::is_valid
Date_is_valid(self) == self.year.some /\ self.month.some /\ self.day.some

\* the dates: each component absent or present, with days and months that
\* are in no calendar among them
Dates ==
    { [year |-> y, month |-> m, day |-> d] :
        y \in {None, Some(5), Some(2023), Some(2024)},
        m \in {None, Some(2), Some(10), Some(13)},
        d \in {None, Some(0), Some(5), Some(29), Some(31)} }

\* the placeholders and the literal texts of the patterns, by name
Piece(name) ==
    CASE name = "{yyyy}" -> <<"{", "y", "y", "y", "y", "}">>
      [] name = "{mm}" -> <<"{", "m", "m", "}">>
      [] name = "{dd}" -> <<"{", "d", "d", "}">>
      [] name = "-" -> <<"-">>
      [] name = "/" -> <<"/">>

\* the patterns, each the sequence of its pieces
Patterns ==
    { <<"{yyyy}", "-", "{mm}", "-", "{dd}">>,
      <<"{dd}", "/", "{mm}", "/", "{yyyy}">>,
      <<"{mm}", "{mm}", "/", "{yyyy}">> }

\* the text of a pattern
RECURSIVE Text(_)
Text(pattern) ==
    IF pattern = << >> THEN << >> ELSE Piece(pattern[1]) \o Text(Tail(pattern))

-----------------------------------------------------------------------------
(* Title.                                                                  *)

\* an english() that gives the empty text for an absent English form
Title_english_unset(self) == IF self.english.some THEN self.english.v ELSE ""

\* Title::english
Title_english(self) == IF self.english.some THEN self.english.v ELSE self.native

\* Title::native
Title_native(self) == self.native

\* Title::user_preferred
Title_user_preferred(self) ==
    IF self.user_preferred.some THEN self.user_preferred.v ELSE self.native

\* Title::is_empty
Title_is_empty(self) ==
    /\ ~self.romaji.some
    /\ ~self.english.some
    /\ self.native = ""
    /\ ~self.user_preferred.some

\* String::from(title) and the Display of a title: title.native()
Title_to_string(self) == Title_native(self)

\* the titles: each form absent or present, the native form empty or not
Titles ==
    { [romaji |-> r, english |-> e, native |-> n, user_preferred |-> u] :
        r \in {None, Some("Shingeki no Kyojin")},
        e \in {None, Some("Attack on Titan"), Some("")},
        n \in {"", "Shingeki"},
        u \in {None, Some("AoT")} }

-----------------------------------------------------------------------------
(* The errors of the operations: the calls against a service that is       *)
(* unreachable, answers with no JSON, refuses the caller, holds            *)
(* well-formed records or holds one defective record, and the gets of an   *)
(* identifier no record has.                                               *)

\* identifiers the service resolves to no record
UnknownIds == {0, -1}

\* a get of an identifier the service cannot resolve
GetUnknownId ==
    \E op \in GetOps \ {"get_user_by_name"}, id \in UnknownIds :
        /\ last' = Call(op,
                        CASE op = "get_anime" -> "Anime"
                          [] op = "get_manga" -> "Manga"
                          [] op = "get_character" -> "Character"
                          [] op = "get_person" -> "Person"
                          [] op = "get_user" -> "User",
                        client, id,
                        Answer(wire, Invoke(op, client, id,
                                            NetFail("pending")).sent[1]),
                        Invoke(op, client, id,
                               Answer(wire, Invoke(op, client, id,
                                                   NetFail("pending")).sent[1])))
        /\ UNCHANGED <<client, wire, flights>>

InitErrors ==
    /\ client = ClientDefault
    /\ wire \in SoundServices \cup { Service("refusing", "none", << >>) }
                  \cup UNION { { Service("up", kind, <<d>>) : d \in Defects(kind, 1) } :
                               kind \in {"media", "users", "people"} }
    /\ last = NoCall
    /\ flights = [t \in Tasks |-> Idle]

NextErrors == Calls \/ GetUnknownId

SpecErrors == InitErrors /\ [][NextErrors]_vars

-----------------------------------------------------------------------------
(* The unwrappers of the two media types on one raw document: an Anime     *)
(* and a Manga that hold the same document at the same field.              *)

\* anime.characters() and manga.characters(), or the two relations(), on
\* records that hold the document
UnwrapBoth ==
    /\ last.op = "doc"
    /\ last' = [last EXCEPT
                  !.op = "unwrap",
                  !.out = Okay(IF last.ty = "characters"
                               THEN [anime |-> Anime_characters(
                                         [DefaultStruct("Anime") EXCEPT
                                            !.characters = last.arg]),
                                     manga |-> Manga_characters(
                                         [DefaultStruct("Manga") EXCEPT
                                            !.characters = last.arg])]
                               ELSE [anime |-> Anime_relations(
                                         [DefaultStruct("Anime") EXCEPT
                                            !.relations = last.arg]),
                                     manga |-> Manga_relations(
                                         [DefaultStruct("Manga") EXCEPT
                                            !.relations = last.arg])],
                               << >>)]
    /\ UNCHANGED <<client, wire, flights>>

\* the caller holds a raw characters or relations document
InitUnwrap ==
    /\ client = ClientDefault
    /\ wire = Service("down", "none", << >>)
    /\ last \in { Call("doc", "characters", ClientDefault, d, NetFail("none"),
                        Panic("none", << >>)) : d \in EdgeDocs(CharacterEdges) }
                  \cup
                { Call("doc", "relations", ClientDefault, d, NetFail("none"),
                        Panic("none", << >>)) : d \in EdgeDocs(RelationEdges) }
    /\ flights = [t \in Tasks |-> Idle]

NextUnwrap == UnwrapBoth

SpecUnwrap == InitUnwrap /\ [][NextUnwrap]_vars

-----------------------------------------------------------------------------
(* Date and the calendar.  A NaiveDate is a year, a month and a day that   *)
(* are a day of the proleptic Gregorian calendar, year 0 included.         *)

LeapYear(y) == y % 4 = 0 /\ (y % 100 # 0 \/ y % 400 = 0)

DaysIn(y, m) ==
    IF m = 2 THEN (IF LeapYear(y) THEN 29 ELSE 28)
    ELSE IF m \in {4, 6, 9, 11} THEN 30 ELSE 31

\* NaiveDate::from_ymd_opt
from_ymd_opt(year, month, day) ==
    IF month \in 1..12 /\ day >= 1 /\ day <= DaysIn(year, month)
    THEN Some([year |-> year, month |-> month, day |-> day]) ELSE None

\* Option::unwrap_or
unwrap_or(self, default) == IF self.some THEN self.v ELSE default

\* Date::as_date
Date_as_date(self) ==
    IF from_ymd_opt(unwrap_or(self.year, 0), unwrap_or(self.month, 0),
                    unwrap_or(self.day, 0)).some
    THEN Okay(from_ymd_opt(unwrap_or(self.year, 0), unwrap_or(self.month, 0),
                           unwrap_or(self.day, 0)).v, << >>)
    ELSE Panic("unwrap on None", << >>)

\* impl From<NaiveDate> for Date
Date_from(date) ==
    [year |-> Some(date.year), month |-> Some(date.month), day |-> Some(date.day)]

\* the calendar dates among the dates
NaiveDates ==
    { [year |-> d.year.v, month |-> d.month.v, day |-> d.day.v] :
        d \in { x \in Dates : /\ Date_is_valid(x)
                               /\ from_ymd_opt(x.year.v, x.month.v, x.day.v).some } }

-----------------------------------------------------------------------------
(* The caller of the value types: it holds a value and applies the         *)
(* accessors of its type.                                                  *)

\* the values the caller holds, each with the name of its type
Values ==
    { <<"Cover", v>> : v \in Covers } \cup { <<"Image", v>> : v \in Images }
      \cup { <<"Date", v>> : v \in Dates } \cup { <<"Title", v>> : v \in Titles }
      \cup { <<"NaiveDate", v>> : v \in NaiveDates }

\* cover.largest() or image.largest() of the value the caller holds
Largest ==
    /\ last.op = "value"
    /\ last.ty \in {"Cover", "Image"}
    /\ last' = [last EXCEPT
                  !.op = "largest",
                  !.out = Okay(IF last.ty = "Cover" THEN Cover_largest(last.arg)
                               ELSE Image_largest(last.arg), << >>)]
    /\ UNCHANGED <<client, wire, flights>>

\* date.format(pattern), date.as_string() and date.is_valid() of the date
\* the caller holds
DateFormat ==
    /\ last.op = "value"
    /\ last.ty = "Date"
    /\ \E pattern \in Patterns :
          last' = [last EXCEPT
                     !.op = "format",
                     !.out = Okay([pattern |-> pattern,
                                   format |-> Date_format(last.arg, Text(pattern)),
                                   as_string |-> Date_as_string(last.arg),
                                   is_valid |-> Date_is_valid(last.arg)],
                                  << >>)]
    /\ UNCHANGED <<client, wire, flights>>

\* the accessors and the conversions to text of the title the caller holds
TitleForms ==
    /\ last.op = "value"
    /\ last.ty = "Title"
    /\ last' = [last EXCEPT
                  !.op = "title",
                  !.out = Okay([romaji |-> Title_romaji(last.arg),
                                english |-> Title_english(last.arg),
                                native |-> Title_native(last.arg),
                                user_preferred |-> Title_user_preferred(last.arg),
                                is_empty |-> Title_is_empty(last.arg),
                                string |-> Title_to_string(last.arg),
                                display |-> Title_to_string(last.arg)],
                               << >>)]
    /\ UNCHANGED <<client, wire, flights>>

\* date.as_date() of the date the caller holds
AsDate ==
    /\ last.op = "value"
    /\ last.ty = "Date"
    /\ last' = [last EXCEPT
                  !.op = "as_date",
                  !.out = Okay([as_date |-> Date_as_date(last.arg),
                                is_valid |-> Date_is_valid(last.arg)], << >>)]
    /\ UNCHANGED <<client, wire, flights>>

\* Date::from(d).as_date() of the calendar date the caller holds
FromDate ==
    /\ last.op = "value"
    /\ last.ty = "NaiveDate"
    /\ last' = [last EXCEPT
                  !.op = "from_date",
                  !.out = Okay([date |-> Date_from(last.arg),
                                as_date |-> Date_as_date(Date_from(last.arg))],
                               << >>)]
    /\ UNCHANGED <<client, wire, flights>>

\* the caller holds a value of one of the value types
InitValues ==
    /\ client = ClientDefault
    /\ wire = Service("down", "none", << >>)
    /\ last \in { Call("value", p[1], ClientDefault, p[2], NetFail("none"),
                        Panic("none", << >>)) : p \in Values }
    /\ flights = [t \in Tasks |-> Idle]

NextValues == Largest \/ DateFormat \/ TitleForms \/ AsDate \/ FromDate

\* the accessors applied to every value
SpecValues == InitValues /\ [][NextValues]_vars

-----------------------------------------------------------------------------
\* C21: Cover::largest returns the first present of extra_large, large and
\* medium, in that order, and is unset exactly when the three are absent;
\* Image::largest returns large when large is not empty, and medium when it
\* is.
C21_Largest ==
    last.op = "largest" =>
        /\ last.out.st = "ok"
        /\ last.ty = "Cover" =>
              /\ last.arg.extra_large.some => last.out.v = last.arg.extra_large
              /\ ~last.arg.extra_large.some /\ last.arg.large.some =>
                    last.out.v = last.arg.large
              /\ ~last.arg.extra_large.some /\ ~last.arg.large.some =>
                    last.out.v = last.arg.medium
              /\ last.out.v = None <=>
                    /\ last.arg.extra_large = None
                    /\ last.arg.large = None
                    /\ last.arg.medium = None
        /\ last.ty = "Image" =>
              /\ last.arg.large # "" => last.out.v = last.arg.large
              /\ last.arg.large = "" => last.out.v = last.arg.medium

\* largest() of a cover where the three sizes are present gave the extra
\* large one
C21_Witness ==
    /\ last.op = "largest"
    /\ last.ty = "Cover"
    /\ last.arg.extra_large = Some("xl.png")
    /\ last.arg.large = Some("l.png")
    /\ last.arg.medium = Some("m.png")
    /\ last.out.v = Some("xl.png")

\* the text a piece of a pattern stands for, for a date: the full year for
\* {yyyy}, the month and the day in two digits for {mm} and {dd}, the piece
\* itself where the component is absent
Rendered(date, name) ==
    CASE name = "{yyyy}" /\ date.year.some -> to_string(date.year.v)
      [] name = "{mm}" /\ date.month.some ->
            (IF date.month.v < 10 THEN <<"0">> ELSE << >>)
               \o to_string(date.month.v)
      [] name = "{dd}" /\ date.day.some ->
            (IF date.day.v < 10 THEN <<"0">> ELSE << >>) \o to_string(date.day.v)
      [] OTHER -> Piece(name)

RECURSIVE RenderedAll(_, _)
RenderedAll(date, pattern) ==
    IF pattern = << >> THEN << >>
    ELSE Rendered(date, pattern[1]) \o RenderedAll(date, Tail(pattern))

\* C22: Date::format replaces each {yyyy}, {mm} and {dd} by the full year
\* and the month and day in two digits, and leaves the placeholders of an
\* absent component as they are; for a fully specified date the format
\* "{yyyy}-{mm}-{dd}" equals as_string(); is_valid() holds exactly when the
\* three components are present.
C22_DateFormat ==
    last.op = "format" =>
        /\ last.out.v.format = RenderedAll(last.arg, last.out.v.pattern)
        /\ ( /\ last.arg.year.some /\ last.arg.month.some /\ last.arg.day.some
             /\ last.out.v.pattern = <<"{yyyy}", "-", "{mm}", "-", "{dd}">> )
           => last.out.v.format = last.out.v.as_string
        /\ last.out.v.is_valid <=>
              (last.arg.year # None /\ last.arg.month # None /\ last.arg.day # None)

\* the date 2023, 10, 5 formatted with "{yyyy}-{mm}-{dd}" gave "2023-10-05"
C22_Witness ==
    /\ last.op = "format"
    /\ last.arg = [year |-> Some(2023), month |-> Some(10), day |-> Some(5)]
    /\ last.out.v.pattern = <<"{yyyy}", "-", "{mm}", "-", "{dd}">>
    /\ last.out.v.format = <<"2", "0", "2", "3", "-", "1", "0", "-", "0", "5">>
    /\ last.out.v.as_string = <<"2", "0", "2", "3", "-", "1", "0", "-", "0", "5">>
    /\ last.out.v.is_valid

\* C23: romaji(), english() and user_preferred() of a title return their
\* own form when it is present and the native form when it is absent;
\* native(), Display and the conversion to String give the native form;
\* is_empty() holds exactly when the three optional forms are absent and the
\* native form is the empty text.
C23_TitleForms ==
    last.op = "title" =>
        /\ last.out.v.romaji =
              (IF last.arg.romaji = None THEN last.arg.native
               ELSE last.arg.romaji.v)
        /\ last.out.v.english =
              (IF last.arg.english = None THEN last.arg.native
               ELSE last.arg.english.v)
        /\ last.out.v.user_preferred =
              (IF last.arg.user_preferred = None THEN last.arg.native
               ELSE last.arg.user_preferred.v)
        /\ last.out.v.native = last.arg.native
        /\ last.out.v.display = last.arg.native
        /\ last.out.v.string = last.arg.native
        /\ last.out.v.is_empty <=>
              /\ last.arg.romaji = None
              /\ last.arg.english = None
              /\ last.arg.user_preferred = None
              /\ last.arg.native = ""

\* the accessors of a title with a romaji form and no English form:
\* english() gave the native form
C23_Witness ==
    /\ last.op = "title"
    /\ last.arg.romaji = Some("Shingeki no Kyojin")
    /\ last.arg.english = None
    /\ last.arg.native = "Shingeki"
    /\ last.out.v.romaji = "Shingeki no Kyojin"
    /\ last.out.v.english = "Shingeki"
    /\ ~last.out.v.is_empty

\* C24: characters() and relations() called on a record the library handed
\* to the caller return a list, and on a partial record, whose raw
\* sub-documents were never populated, the list is empty.
C24_AccessorsReturn ==
    last.op \in {"characters", "relations"} =>
        /\ last.out.st = "ok"
        /\ ~last.arg.is_full_loaded => last.out.v = << >>

\* C25: every error value an operation returns is the ApiError variant, and
\* a get returns it with the cause when the HTTP call failed, when the
\* service answered with the errors envelope (as it does for an identifier
\* it cannot resolve, zero and negative ones among them), and when the
\* record under data does not decode.
C25_ErrorsAreApiError ==
    /\ last.out.st = "err" => last.out.e.variant = "ApiError"
    /\ last.op \in GetOps =>
          /\ last.net.t = "fail" =>
                /\ last.out.st = "err"
                /\ last.out.e = ApiError([kind |-> "reqwest", at |-> last.net.cause])
          /\ (last.net.t = "text" /\ last.net.json /\ last.net.doc = ErrorEnvelope) =>
                /\ last.out.st = "err"
                /\ last.out.e.variant = "ApiError"
                /\ last.out.e.msg.kind # "reqwest"
          /\ (last.net.t = "text" /\ last.net.json
                /\ \E n \in Received : ~DecodeStruct(last.ty, n).ok) =>
                /\ last.out.st = "err"
                /\ last.out.e.variant = "ApiError"
                /\ last.out.e.msg.kind # "reqwest"
          /\ (last.op # "get_user_by_name" /\ last.net.t = "text" /\ last.net.json
                /\ last.arg \in UnknownIds) =>
                last.out.st = "err"

\* get_anime(0) was answered with the errors envelope and returned ApiError
C25_Witness ==
    /\ last.op = "get_anime"
    /\ last.arg = 0
    /\ last.net = NetJson(ErrorEnvelope)
    /\ last.out.st = "err"
    /\ last.out.e.variant = "ApiError"

\* C26: on every raw characters document and every raw relations document
\* the unwrapper of Anime and the unwrapper of Manga both return, and
\* return equal lists, or both fail.
C26_SameUnwrap ==
    last.op = "unwrap" =>
        /\ last.out.v.anime.st = last.out.v.manga.st
        /\ last.out.v.anime.st = "ok" => last.out.v.anime.v = last.out.v.manga.v

\* the two characters() on a document with two well-formed edges each
\* returned two characters
C26_Witness ==
    /\ last.op = "unwrap"
    /\ last.ty = "characters"
    /\ last.out.v.anime.st = "ok"
    /\ Len(last.out.v.anime.v) = 2
    /\ last.out.v.manga.st = "ok"
    /\ Len(last.out.v.manga.v) = 2

\* the value at data.Page.media (data.Page.users for users) of the answer to
\* the last search, as an array
PageArray ==
    as_array(Index(Index(Index(last.net.doc, "data"), "Page"),
                   SearchKey(last.ty)))

\* C27: a search that was answered with a JSON envelope returns None exactly
\* when the envelope has no array at data.Page.media (data.Page.users), and
\* otherwise a list with one record for each element of the array, in the
\* order of the array, each with the id of its element.
C27_SearchResult ==
    (last.op \in SearchOps /\ last.net.t = "text" /\ last.net.json) =>
        /\ last.out.st = "ok"
        /\ ~last.out.v.some <=> ~PageArray.some
        /\ PageArray.some =>
              /\ Len(last.out.v.v) = Len(PageArray.v)
              /\ \A i \in DOMAIN PageArray.v :
                    last.out.v.v[i].id = Index(PageArray.v[i], "id").n

\* the integer at a key of the node of the relation media() was called on
WireScore(key) == Index(last.arg.node, key)

\* C28: the id of each user a search_user returned equals the id of its
\* element on the wire, and the average_score and mean_score of a media
\* that Relation::media built equal the numbers on the wire.
C28_NumbersPreserved ==
    /\ (last.op = "search_user" /\ last.out.st = "ok" /\ last.out.v.some) =>
          \A i \in DOMAIN last.out.v.v :
              last.out.v.v[i].id = Index(PageArray.v[i], "id").n
    /\ (last.op = "media" /\ last.out.st = "ok"
          /\ last.out.v.media.variant # "Unknown") =>
          /\ WireScore("averageScore").k = "int" =>
                last.out.v.media.record.average_score =
                    Some(WireScore("averageScore").n)
          /\ WireScore("meanScore").k = "int" =>
                last.out.v.media.record.mean_score = Some(WireScore("meanScore").n)

\* whether the three components of a date, all present, are a day of the
\* calendar
RealDay(date) ==
    /\ date.month.v \in 1..12
    /\ date.day.v \in 1..DaysIn(date.year.v, date.month.v)

\* C29: Date::as_date returns a calendar date exactly when is_valid() holds
\* and the components are a day of the calendar, it panics for every date
\* with an absent component, and Date::from(d).as_date() is d for every
\* calendar date d.
C29_AsDate ==
    /\ last.op = "as_date" =>
          /\ last.out.v.as_date.st = "ok" <=>
                (last.out.v.is_valid /\ RealDay(last.arg))
          /\ (last.arg.year = None \/ last.arg.month = None \/ last.arg.day = None)
                => last.out.v.as_date.st = "panic"
    /\ last.op = "from_date" => last.out.v.as_date = Okay(last.arg, << >>)


\* C30: for every variant of Language, Format, Season and Source, each text
\* the type emits for the variant (Language::code, Format::name,
\* Season::name and the Display form) converted back with From<&str> is the
\* variant again.
C30_TextRoundTrip ==
    last.op = "round_trip" =>
        \A e \in last.out.v : e.back = last.arg

=============================================================================
